---- MODULE Spec2Model ----
(***************************************************************************)
(* HouseLeagueCoach: the game aggregate (roster, settings, periods), the   *)
(* GameManager operations on it, the strict rotation lineup selector and   *)
(* the App's event handlers that drive them.                               *)
(*                                                                         *)
(* Conventions.                                                            *)
(*  - A Player is a record [id, skillLevel, position, isPresent,           *)
(*    totalPlayingTime]; name and jerseyNumber are display-only and are    *)
(*    left out.  A lineup is a sequence of player ids: the code stores     *)
(*    Player references, and every read it makes through a lineup          *)
(*    reference that changes state goes by player.id.                      *)
(*  - Playing time is a JavaScript number of minutes.  The catch-up credit *)
(*    divides by the number of present players and multiplies by 0.7, so   *)
(*    times are kept as exact multiples of 1/TimeScale minute.             *)
(*  - Period ids are the strings `period-${n}`; the model keeps n.         *)
(*  - null is modelled by the empty sequence (lineupSuggestion), by        *)
(*    NoPeriod (currentPeriod) and by Undefined (actualDuration).          *)
(***************************************************************************)
EXTENDS Integers, Sequences, FiniteSets, TLC

VARIABLES
    roster,              \* game.roster: sequence of Player records
    settings,            \* game.settings
    periods,             \* game.periods: sequence of Period records
    isActive,            \* game.isActive
    lineupSuggestion,    \* App state: <<>> (null) or <<suggestion>>
    currentPeriod,       \* App state: NoPeriod (null) or the period's id
    showRosterFromTeams, \* App state: the pre-game roster screen is shown
    coachProfile,        \* App state: [teams, activeTeamId, isPremium]
    teamId,              \* game.teamId
    showTeamEdit,        \* App state: the team edit modal is open
    editingTeam,         \* App state: <<>> (null) or <<team>>
    now,                 \* the clock Date.now() reads
    ret                  \* what the last call returned: "true" or "false" from
                         \* swapPlayers, "null" or "period" from
                         \* addOvertimePeriod, "TypeError" when
                         \* LineupGenerator.generateOptimalLineup throws,
                         \* "report" or "emptyReport" from a fairness
                         \* report, "none" after any other call

\* the App's team state and the clock
teamVars == <<coachProfile, teamId, showTeamEdit, editingTeam, now>>

vars == <<roster, settings, periods, isActive, lineupSuggestion,
          currentPeriod, showRosterFromTeams, ret, teamVars>>

----------------------------------------------------------------------------
(* Bounds *)

\* players in the roster of a game handed to a GameManager
NumPlayers == 3
\* periods a game may hold in the model
MaxPeriods == 2
\* minutes of playing time a player may accrue in the model
MaxMinutes == 8
\* lineup size of the games handed to a GameManager
CourtSize == 2
\* periods played in the strict rotation runs
MaxRotationPeriods == 6
\* players in the App's team roster
RosterSize == 6
\* teams a coach profile may hold in the model
MaxTeams == 3
\* readings of Date.now() that allocate an id in the model
MaxClock == 2

----------------------------------------------------------------------------
(* Values *)

NoPeriod == 0
Undefined == -1

RECURSIVE Factorial(_)
Factorial(n) == IF n <= 1 THEN 1 ELSE n * Factorial(n - 1)

\* one minute, in model time units: 0.7 = 7/10 and a division by a number of
\* present players (at most the roster size) stay exact
TimeScale == 10 * Factorial(IF RosterSize > NumPlayers THEN RosterSize ELSE NumPlayers)

Player(i, s, pos) ==
    [id |-> i, skillLevel |-> s, position |-> pos,
     isPresent |-> FALSE, totalPlayingTime |-> 0]

createSampleRoster ==
    << Player(1, 4, "Guard"),   Player(2, 5, "Forward"), Player(3, 3, "Center"),
       Player(4, 4, "Guard"),   Player(5, 3, "Forward"), Player(6, 4, "Guard"),
       Player(7, 2, "Center"),  Player(8, 5, "Forward"), Player(9, 3, "Guard"),
       Player(10, 4, "Center"), Player(11, 2, "Any"),    Player(12, 3, "Any") >>

defaultGameSettings ==
    [periodsCount |-> 8, periodDuration |-> 4,
     overtimePeriods |-> 2, playersOnCourt |-> 5]

\* RosterScreen.handleStartGame: presentPlayers.length < 5 refuses the start
MinPlayersToStart == 5

\* the players of the sample team: coachProfile.teams[0].players
teamPlayers == SubSeq(createSampleRoster, 1, RosterSize)

\* team ids are the strings 'team-1' and `team-${Date.now()}`, player ids
\* '1' to '12' and `player-${Date.now()}`; the model keeps the sample ids and
\* numbers the ids allocated at clock reading t after them
TeamIdAt(t) == 1 + t
PlayerIdAt(t) == Len(createSampleRoster) + t

\* a Team is a record [id, players]; name, colours, avatar and dates are
\* display-only and are left out
createDefaultCoachProfile ==
    [teams |-> <<[id |-> 1, players |-> teamPlayers]>>,
     activeTeamId |-> 1,
     isPremium |-> FALSE]

\* coachProfile.teams.find(t => t.id === coachProfile.activeTeamId) || coachProfile.teams[0]
ActiveTeam(profile) ==
    IF \E t \in 1..Len(profile.teams) : profile.teams[t].id = profile.activeTeamId
    THEN profile.teams[CHOOSE t \in 1..Len(profile.teams) :
                          /\ profile.teams[t].id = profile.activeTeamId
                          /\ \A u \in 1..(t - 1) : profile.teams[u].id # profile.activeTeamId]
    ELSE profile.teams[1]

\* the App's team state after construction, and the clock
InitTeams ==
    /\ coachProfile = createDefaultCoachProfile
    /\ teamId = ActiveTeam(createDefaultCoachProfile).id
    /\ showTeamEdit = FALSE
    /\ editingTeam = <<>>
    /\ now = 1

----------------------------------------------------------------------------
(* Array helpers *)

\* Array.prototype.findIndex on ids: first index holding id, 0 when none
FindIndex(ids, id) ==
    IF \E i \in 1..Len(ids) : ids[i] = id
    THEN CHOOSE i \in 1..Len(ids) :
            ids[i] = id /\ \A j \in 1..(i - 1) : ids[j] # id
    ELSE 0

Ids(players) == [i \in 1..Len(players) |-> players[i].id]

RemoveAt(s, i) == SubSeq(s, 1, i - 1) \o SubSeq(s, i + 1, Len(s))

RECURSIVE SumSeq(_)
SumSeq(s) == IF s = <<>> THEN 0 ELSE Head(s) + SumSeq(Tail(s))

Occurrences(s, x) == Cardinality({i \in 1..Len(s) : s[i] = x})

\* the set of players of a lineup
PlayerSet(lineup) == {lineup[i] : i \in 1..Len(lineup)}

\* mutant of PresentPlayers: the absent players are kept
PresentPlayersUnfiltered(r) == r

\* roster.filter(p => p.isPresent)
PresentPlayers(r) == SelectSeq(r, LAMBDA p : p.isPresent)

CompletedCount(ps) == Cardinality({i \in 1..Len(ps) : ps[i].isCompleted})

Max(a, b) == IF a > b THEN a ELSE b

MinOf(S) == CHOOSE x \in S : \A y \in S : x <= y

MaxOf(S) == CHOOSE x \in S : \A y \in S : x >= y

----------------------------------------------------------------------------
(* StrictLineupGenerator *)

\* Map.get(id) || 0
CountGet(counts, id) == IF id \in DOMAIN counts THEN counts[id] ELSE 0

\* number of completed periods whose lineup holds id (once per slot)
PeriodsPlayed(existingPeriods, id) ==
    SumSeq([i \in 1..Len(existingPeriods) |->
              IF existingPeriods[i].isCompleted
              THEN Occurrences(existingPeriods[i].lineup, id) ELSE 0])

\* mutant of calculatePeriodCounts: the period history is never counted
calculatePeriodCountsNoHistory(players, existingPeriods) ==
    [id \in {players[i].id : i \in 1..Len(players)} |-> 0]

\* the Map of period counts: a key for every generator player, and for every
\* id found in a completed lineup
calculatePeriodCounts(players, existingPeriods) ==
    LET played == UNION {{existingPeriods[i].lineup[j] :
                             j \in 1..Len(existingPeriods[i].lineup)} :
                         i \in {k \in 1..Len(existingPeriods) :
                                   existingPeriods[k].isCompleted}}
        keys == {players[i].id : i \in 1..Len(players)} \cup played
    IN [id \in keys |-> PeriodsPlayed(existingPeriods, id)]

\* the sort comparator: fewer periods first, then higher skill
ComparePlayers(a, b, periodCounts) ==
    LET aCount == CountGet(periodCounts, a.id)
        bCount == CountGet(periodCounts, b.id)
    IN IF aCount # bCount THEN aCount - bCount
       ELSE b.skillLevel - a.skillLevel

\* [...players].sort(comparator): a stable sort (insertion of each element
\* after the elements that do not compare greater)
RECURSIVE SortPlayers(_, _)
SortPlayers(players, periodCounts) ==
    IF players = <<>> THEN <<>>
    ELSE LET n == Len(players)
             x == players[n]
             front == SortPlayers(SubSeq(players, 1, n - 1), periodCounts)
             k == Cardinality({i \in 1..Len(front) :
                                 ComparePlayers(front[i], x, periodCounts) <= 0})
         IN SubSeq(front, 1, k) \o <<x>> \o SubSeq(front, k + 1, Len(front))

\* tiedPlayers.reduce((best, current) => current.skillLevel > best.skillLevel ? current : best)
RECURSIVE ReduceBest(_, _)
ReduceBest(best, rest) ==
    IF rest = <<>> THEN best
    ELSE ReduceBest(IF Head(rest).skillLevel > best.skillLevel
                    THEN Head(rest) ELSE best, Tail(rest))

\* mutant of selectBestFromTied: the higher skill level is preferred whatever
\* the positions
selectBestFromTiedBySkill(tiedPlayers, currentLineup) ==
    ReduceBest(Head(tiedPlayers), Tail(tiedPlayers))

\* mutant of selectBestFromTied: a tied player with position Any counts as
\* having a position the lineup lacks
selectBestFromTiedAnyCounts(tiedPlayers, currentLineup) ==
    LET currentPositions == {currentLineup[i].position : i \in 1..Len(currentLineup)}
        fresh == {i \in 1..Len(tiedPlayers) :
                     tiedPlayers[i].position \notin currentPositions}
    IN IF fresh # {} THEN tiedPlayers[MinOf(fresh)]
       ELSE ReduceBest(Head(tiedPlayers), Tail(tiedPlayers))

selectBestFromTied(tiedPlayers, currentLineup) ==
    LET currentPositions == {currentLineup[i].position : i \in 1..Len(currentLineup)}
        fresh == {i \in 1..Len(tiedPlayers) :
                     /\ tiedPlayers[i].position # "Any"
                     /\ tiedPlayers[i].position \notin currentPositions}
    IN IF fresh # {} THEN tiedPlayers[MinOf(fresh)]
       ELSE ReduceBest(Head(tiedPlayers), Tail(tiedPlayers))

\* mutant of FillLineup: every available player counts as tied, whatever
\* the periods played
RECURSIVE FillLineupAllTied(_, _, _, _)
FillLineupAllTied(lineup, available, periodCounts, playersOnCourt) ==
    IF ~(Len(lineup) < playersOnCourt /\ Len(available) > 0) THEN lineup
    ELSE LET selectedPlayer == IF Len(available) = 1 THEN available[1]
                               ELSE selectBestFromTied(available, lineup)
         IN FillLineupAllTied(Append(lineup, selectedPlayer),
                              RemoveAt(available, FindIndex(Ids(available), selectedPlayer.id)),
                              periodCounts, playersOnCourt)

\* mutant of FillLineup: the selected player is not taken off the available
\* players
RECURSIVE FillLineupNoSplice(_, _, _, _)
FillLineupNoSplice(lineup, available, periodCounts, playersOnCourt) ==
    IF ~(Len(lineup) < playersOnCourt /\ Len(available) > 0) THEN lineup
    ELSE LET minPeriods == MinOf({CountGet(periodCounts, available[i].id) :
                                     i \in 1..Len(available)})
             minPlayers == SelectSeq(available,
                              LAMBDA p : CountGet(periodCounts, p.id) = minPeriods)
             selectedPlayer == IF Len(minPlayers) = 1 THEN minPlayers[1]
                               ELSE selectBestFromTied(minPlayers, lineup)
         IN FillLineupNoSplice(Append(lineup, selectedPlayer), available,
                               periodCounts, playersOnCourt)

\* the while loop of generateStrictRotationLineup
RECURSIVE FillLineup(_, _, _, _)
FillLineup(lineup, available, periodCounts, playersOnCourt) ==
    IF ~(Len(lineup) < playersOnCourt /\ Len(available) > 0) THEN lineup
    ELSE LET minPeriods == MinOf({CountGet(periodCounts, available[i].id) :
                                     i \in 1..Len(available)})
             minPlayers == SelectSeq(available,
                              LAMBDA p : CountGet(periodCounts, p.id) = minPeriods)
             selectedPlayer == IF Len(minPlayers) = 1 THEN minPlayers[1]
                               ELSE selectBestFromTied(minPlayers, lineup)
         IN FillLineup(Append(lineup, selectedPlayer),
                       RemoveAt(available, FindIndex(Ids(available), selectedPlayer.id)),
                       periodCounts, playersOnCourt)

generateStrictRotationLineup(players, periodCounts, playersOnCourt) ==
    FillLineup(<<>>, SortPlayers(players, periodCounts), periodCounts, playersOnCourt)

\* a JavaScript number kept as the quotient num / den of two integers,
\* den >= 0; den = 0 stands for what a division by 0 gives: NaN when num = 0,
\* Infinity when num > 0
Quotient(n, d) == [num |-> n, den |-> d]

\* q is a number of [0, 1]
InUnitInterval(q) == q.den > 0 /\ 0 <= q.num /\ q.num <= q.den

\* calculateRotationBalance(periodCounts, proposedLineup), in hundredths;
\* with an empty Map Math.min() is Infinity and Math.max() is -Infinity, the
\* difference is -Infinity and the balance Math.max(0, Infinity)
calculateRotationBalance(periodCounts, proposedLineup) ==
    LET selected == {proposedLineup[i].id : i \in 1..Len(proposedLineup)}
        projectedCounts == [id \in DOMAIN periodCounts \cup selected |->
                               CountGet(periodCounts, id)
                                 + Occurrences(Ids(proposedLineup), id)]
        counts == {projectedCounts[id] : id \in DOMAIN projectedCounts}
    IN IF counts = {} THEN Quotient(1, 0)
       ELSE Quotient(Max(0, 100 - 33 * (MaxOf(counts) - MinOf(counts))), 100)

\* mutant of calculatePositionBalance: Any counts as a position
calculatePositionBalanceCountsAny(lineup) ==
    Quotient(Cardinality({lineup[i].position : i \in 1..Len(lineup)}),
             IF Len(lineup) < 3 THEN Len(lineup) ELSE 3)

\* calculatePositionBalance(lineup): uniquePositions / maxPossiblePositions,
\* 0 / 0 for an empty lineup
calculatePositionBalance(lineup) ==
    Quotient(Cardinality({lineup[i].position : i \in 1..Len(lineup)} \ {"Any"}),
             IF Len(lineup) < 3 THEN Len(lineup) ELSE 3)

\* new StrictLineupGenerator(players, settings, existingPeriods).generateOptimalLineup():
\* the suggestion, its players as ids
generateOptimalLineup(players, gameSettings, existingPeriods) ==
    LET present == PresentPlayers(players)
        periodCounts == calculatePeriodCounts(present, existingPeriods)
        lineup == generateStrictRotationLineup(present, periodCounts,
                                               gameSettings.playersOnCourt)
    IN [players |-> Ids(lineup),
        averageSkillLevel |->
            Quotient(SumSeq([i \in 1..Len(lineup) |-> lineup[i].skillLevel]),
                     Len(lineup)),
        playingTimeBalance |-> calculateRotationBalance(periodCounts, lineup),
        positionBalance |-> calculatePositionBalance(lineup)]

----------------------------------------------------------------------------
(* LineupGenerator: the weighted-candidate selector *)

Abs(x) == IF x < 0 THEN -x ELSE x

RECURSIVE GCD(_, _)
GCD(a, b) == IF b = 0 THEN a ELSE GCD(b, a % b)

\* the largest r of lo..hi with r * r <= n
RECURSIVE ISqrtBetween(_, _, _)
ISqrtBetween(n, lo, hi) ==
    IF lo = hi THEN lo
    ELSE LET mid == (lo + hi + 1) \div 2
         IN IF mid * mid <= n THEN ISqrtBetween(n, mid, hi)
            ELSE ISqrtBetween(n, lo, mid - 1)

\* bounds of 1000 * Math.sqrt(v) for a natural number v
SqrtFloor(v) == ISqrtBetween(v * 1000 * 1000, 0, 46340)
SqrtCeil(v) ==
    IF SqrtFloor(v) * SqrtFloor(v) = v * 1000 * 1000 THEN SqrtFloor(v)
    ELSE SqrtFloor(v) + 1

\* the comparator of generateCandidateLineups: playing times within 0.1
\* minute compare by skill, higher first; otherwise less playing time first
ComparePlayingTime(a, b) ==
    LET timeDiff == a.totalPlayingTime - b.totalPlayingTime
    IN IF 10 * Abs(timeDiff) < TimeScale THEN b.skillLevel - a.skillLevel
       ELSE timeDiff

\* playersArray.sort(comparator), a stable sort
RECURSIVE SortByPlayingTime(_)
SortByPlayingTime(players) ==
    IF players = <<>> THEN <<>>
    ELSE LET n == Len(players)
             x == players[n]
             front == SortByPlayingTime(SubSeq(players, 1, n - 1))
             k == Cardinality({i \in 1..Len(front) :
                                 ComparePlayingTime(front[i], x) <= 0})
         IN SubSeq(front, 1, k) \o <<x>> \o SubSeq(front, k + 1, Len(front))

\* shuffleArray(array, seed): Math.min(3, seed) swaps of array[0] with
\* array[randomIndex]; draws holds the values of randomIndex, in order
RECURSIVE shuffleArray(_, _)
shuffleArray(array, draws) ==
    IF draws = <<>> THEN array
    ELSE LET randomIndex == Head(draws) + 1
         IN shuffleArray([array EXCEPT ![1] = array[randomIndex],
                                       ![randomIndex] = array[1]],
                         Tail(draws))

\* the score selectNextPlayer gives player, times
\* 10 * n * (the maximum playing time, or 1 when it is 0): an integer
PlayerScore(player, currentLineup, players, gameSettings) ==
    LET n == Len(players)
        maxPlayingTime == MaxOf({players[i].totalPlayingTime : i \in 1..n})
        unit == IF maxPlayingTime > 0 THEN maxPlayingTime ELSE 1
        \* playingTimeScore * unit
        timeShare == IF maxPlayingTime > 0
                     THEN maxPlayingTime - player.totalPlayingTime ELSE 1
        positions == {currentLineup[i].position : i \in 1..Len(currentLineup)}
        bonus == IF player.position # "Any" /\ player.position \notin positions
                 THEN 15 ELSE 0
        currentSkillSum == SumSeq([i \in 1..Len(currentLineup) |->
                                      currentLineup[i].skillLevel])
        teamSkillSum == SumSeq([i \in 1..n |-> players[i].skillLevel])
        \* skillDifference * n
        skillDifference == Abs(n * (currentSkillSum + player.skillLevel)
                                 - teamSkillSum * gameSettings.playersOnCourt)
    IN 100 * n * timeShare + bonus * unit * n + 3 * unit * (5 * n - skillDifference)

\* bestScore = -1, on the scale of PlayerScore
InitialPlayerScore(players) ==
    LET n == Len(players)
        maxPlayingTime == MaxOf({players[i].totalPlayingTime : i \in 1..n})
    IN -10 * n * (IF maxPlayingTime > 0 THEN maxPlayingTime ELSE 1)

\* the loop of selectNextPlayer over available[from..], with the best player
\* (an index of available) and score so far
RECURSIVE BestAvailable(_, _, _, _, _, _, _)
BestAvailable(available, from, best, bestScore, currentLineup, players, gameSettings) ==
    IF from > Len(available) THEN best
    ELSE LET score == PlayerScore(available[from], currentLineup, players, gameSettings)
         IN IF score > bestScore
            THEN BestAvailable(available, from + 1, from, score,
                               currentLineup, players, gameSettings)
            ELSE BestAvailable(available, from + 1, best, bestScore,
                               currentLineup, players, gameSettings)

\* selectNextPlayer(available, currentLineup), available not empty: the index
\* of the player it returns
selectNextPlayer(available, currentLineup, players, gameSettings) ==
    BestAvailable(available, 1, 1, InitialPlayerScore(players),
                  currentLineup, players, gameSettings)

\* the while loop of createGreedyLineup
RECURSIVE GreedyFill(_, _, _, _)
GreedyFill(lineup, available, players, gameSettings) ==
    IF ~(Len(lineup) < gameSettings.playersOnCourt /\ Len(available) > 0) THEN lineup
    ELSE LET next == selectNextPlayer(available, lineup, players, gameSettings)
         IN GreedyFill(Append(lineup, available[next]), RemoveAt(available, next),
                       players, gameSettings)

\* createGreedyLineup(sorted, variation) with the draws of its shuffle (none
\* for variation 0); players is this.players, not empty
createGreedyLineup(sorted, draws, players, gameSettings) ==
    GreedyFill(<<>>, shuffleArray(sorted, draws), players, gameSettings)

\* generateCandidateLineups(): attempt 0 and the attempts that follow it, one
\* for each entry of draws; only lineups of playersOnCourt players are kept
generateCandidateLineups(players, gameSettings, draws) ==
    LET sorted == SortByPlayingTime(players)
        lineups == [a \in 1..(Len(draws) + 1) |->
                      createGreedyLineup(sorted,
                                         IF a = 1 THEN <<>> ELSE draws[a - 1],
                                         players, gameSettings)]
    IN SelectSeq(lineups, LAMBDA l : Len(l) = gameSettings.playersOnCourt)

\* the sum over the lineup of |target - periodDuration|, times
\* n * TimeScale; the target of a player is
\* periodsCount * periodDuration * playersOnCourt / n - totalPlayingTime
DeviationSum(lineup, players, gameSettings) ==
    LET n == Len(players)
    IN SumSeq([i \in 1..Len(lineup) |->
          Abs(gameSettings.periodsCount * gameSettings.periodDuration
                 * gameSettings.playersOnCourt * TimeScale
              - n * lineup[i].totalPlayingTime
              - n * gameSettings.periodDuration * TimeScale)])

\* what DeviationSum is divided by to give normalizedDeviation
DeviationUnit(lineup, players, gameSettings) ==
    Len(players) * TimeScale * Len(lineup) * gameSettings.periodDuration

\* calculatePositionBalance: uniquePositions and maxPossiblePositions
UniquePositions(lineup) ==
    Cardinality({lineup[i].position : i \in 1..Len(lineup)} \ {"Any"})

MaxPossiblePositions(lineup) == IF Len(lineup) < 3 THEN Len(lineup) ELSE 3

\* 0.15 * positionBalance + 0.1 * skillBalance, times
\* 40 * maxPossiblePositions * k * k for a lineup of k players; the variance
\* of the skills is (k * sum of squares - square of sum) / (k * k)
BalanceScore(lineup) ==
    LET k == Len(lineup)
        skillSum == SumSeq([i \in 1..k |-> lineup[i].skillLevel])
        squareSum == SumSeq([i \in 1..k |-> lineup[i].skillLevel * lineup[i].skillLevel])
        variance == k * squareSum - skillSum * skillSum
    IN 6 * UniquePositions(lineup) * k * k
         + MaxPossiblePositions(lineup) * Max(0, 4 * k * k - variance)

\* q * (sqrt(a) - sqrt(b)) > p * sqrt(c) for naturals a, b, c, q > 0 and an
\* integer p: decided on bounds of the square roots where they separate the
\* two sides, and by squaring otherwise
SqrtDifferenceExceeds(a, b, c, p, q) ==
    LET low == q * (SqrtFloor(a) - SqrtCeil(b))
                 - (IF p >= 0 THEN p * SqrtCeil(c) ELSE p * SqrtFloor(c))
        high == q * (SqrtCeil(a) - SqrtFloor(b))
                 - (IF p >= 0 THEN p * SqrtFloor(c) ELSE p * SqrtCeil(c))
        more == q * q * (a + b) - p * p * c
        less == q * q * (b - a) - p * p * c
    IN IF p = 0 THEN a > b
       ELSE IF low > 0 THEN TRUE
       ELSE IF high <= 0 THEN FALSE
       ELSE IF p > 0
            THEN a > b /\ more > 0 /\ more * more > 4 * q * q * q * q * a * b
            ELSE less < 0 \/ 4 * q * q * p * p * a * c > less * less

\* evaluateLineup(l1) > evaluateLineup(l2) for two candidates of one call:
\* the score is 0.75 * max(0, 1 - sqrt(normalizedDeviation))
\*   + 0.15 * positionBalance + 0.1 * skillBalance
ScoresHigher(l1, l2, players, gameSettings) ==
    LET unit == DeviationUnit(l1, players, gameSettings)
        \* max(0, 1 - sqrt(x)) = 1 - sqrt(min(x, 1))
        dev1 == IF DeviationSum(l1, players, gameSettings) > unit THEN unit
                ELSE DeviationSum(l1, players, gameSettings)
        dev2 == IF DeviationSum(l2, players, gameSettings) > unit THEN unit
                ELSE DeviationSum(l2, players, gameSettings)
        g == GCD(unit, GCD(dev1, dev2))
        diff == BalanceScore(l2) - BalanceScore(l1)
        scale == 30 * MaxPossiblePositions(l1) * Len(l1) * Len(l1)
        h == GCD(Abs(diff), scale)
    IN SqrtDifferenceExceeds(dev2 \div g, dev1 \div g, unit \div g,
                             diff \div h, scale \div h)

\* the weights the README's Algorithm Details give the scoring system, in
\* percent
readmeWeights == [playingTime |-> 50, positionBalance |-> 30, skillBalance |-> 20]

\* weights.positionBalance * positionBalance + weights.skillBalance * skillBalance,
\* times 4 * maxPossiblePositions * k * k for a lineup of k players
WeightedBalanceScore(lineup, weights) ==
    LET k == Len(lineup)
        skillSum == SumSeq([i \in 1..k |-> lineup[i].skillLevel])
        squareSum == SumSeq([i \in 1..k |-> lineup[i].skillLevel * lineup[i].skillLevel])
        variance == k * squareSum - skillSum * skillSum
    IN weights.positionBalance * UniquePositions(lineup) * 4 * k * k
         + weights.skillBalance * MaxPossiblePositions(lineup) * Max(0, 4 * k * k - variance)

\* the weights evaluateLineup gives the three balances, in percent
evaluateLineupWeights == [playingTime |-> 75, positionBalance |-> 15, skillBalance |-> 10]

\* the score of lineup on the weights w1 is its score on the weights w2:
\*   (w1.playingTime - w2.playingTime) * (1 - sqrt(normalizedDeviation))
\* is the balance score on w2 minus the balance score on w1
ScoresAgree(lineup, players, gameSettings, w1, w2) ==
    LET unit == DeviationUnit(lineup, players, gameSettings)
        dev == IF DeviationSum(lineup, players, gameSettings) > unit THEN unit
               ELSE DeviationSum(lineup, players, gameSettings)
        g == GCD(unit, dev)
        whole == (w1.playingTime - w2.playingTime)
                    * 4 * MaxPossiblePositions(lineup) * Len(lineup) * Len(lineup)
        \* whole * sqrt(normalizedDeviation) = root
        root == whole - (WeightedBalanceScore(lineup, w2) - WeightedBalanceScore(lineup, w1))
        h == GCD(Abs(root), Abs(whole))
    IN IF whole = 0 THEN root = 0
       ELSE /\ root * whole >= 0
            /\ (dev \div g) * (Abs(whole) \div h) * (Abs(whole) \div h)
                 = (unit \div g) * (Abs(root) \div h) * (Abs(root) \div h)

\* the loop of selectBestLineup over candidates[from..]; best is an index of
\* candidates, 0 while bestScore is -1 (every score is at least 0)
RECURSIVE BestCandidate(_, _, _, _, _)
BestCandidate(candidates, from, best, players, gameSettings) ==
    IF from > Len(candidates) THEN best
    ELSE IF best = 0 \/ ScoresHigher(candidates[from], candidates[best],
                                     players, gameSettings)
         THEN BestCandidate(candidates, from + 1, from, players, gameSettings)
         ELSE BestCandidate(candidates, from + 1, best, players, gameSettings)

\* mutant of selectBestLineup: the first candidate is returned
selectBestLineupFirst(candidates, players, gameSettings) ==
    candidates[1]

\* selectBestLineup(candidates, targets), candidates not empty
selectBestLineup(candidates, players, gameSettings) ==
    candidates[BestCandidate(candidates, 1, 0, players, gameSettings)]

\* new LineupGenerator(players, settings, existingPeriods).generateOptimalLineup()
\* throws a TypeError: without a present player the shuffle of attempt 1
\* leaves undefined in the array and groupByPosition reads its position;
\* without a candidate selectBestLineup reads candidates[0].reduce
weightedThrows(players, gameSettings, draws) ==
    \/ PresentPlayers(players) = <<>>
    \/ generateCandidateLineups(PresentPlayers(players), gameSettings, draws) = <<>>

\* the suggestion generateOptimalLineup returns when it does not throw: the
\* players of the best candidate, as ids, and its figures; playingTimeBalance
\* is 1 - sqrt(oneMinusSqrtOf), the normalized deviation capped at 1
weightedOptimalLineup(players, gameSettings, draws) ==
    LET present == PresentPlayers(players)
        bestLineup == selectBestLineup(
                         generateCandidateLineups(present, gameSettings, draws),
                         present, gameSettings)
        deviation == DeviationSum(bestLineup, present, gameSettings)
        unit == DeviationUnit(bestLineup, present, gameSettings)
    IN [players |-> Ids(bestLineup),
        averageSkillLevel |->
            Quotient(SumSeq([i \in 1..Len(bestLineup) |-> bestLineup[i].skillLevel]),
                     Len(bestLineup)),
        playingTimeBalance |->
            [oneMinusSqrtOf |-> Quotient(IF deviation > unit THEN unit ELSE deviation,
                                         unit)],
        positionBalance |-> calculatePositionBalance(bestLineup)]

----------------------------------------------------------------------------
(* GameManager *)

markPlayerPresent(r, playerId, present) ==
    LET i == FindIndex(Ids(r), playerId)
    IN IF i # 0 THEN [r EXCEPT ![i].isPresent = present] ELSE r

\* mutant of calculateCatchUpTime: the whole expected time is credited
calculateCatchUpTimeFullShare(r, i, gameSettings, ps) ==
    LET completedPeriods == CompletedCount(ps)
        presentPlayers == Len(PresentPlayers(r))
    IN IF completedPeriods = 0 THEN r
       ELSE [r EXCEPT ![i].totalPlayingTime =
               Max(0, (gameSettings.periodDuration * gameSettings.playersOnCourt
                         * completedPeriods * TimeScale) \div presentPlayers)]

\* Math.max(0, expectedTime * 0.7) for roster entry i
calculateCatchUpTime(r, i, gameSettings, ps) ==
    LET completedPeriods == CompletedCount(ps)
        presentPlayers == Len(PresentPlayers(r))
    IN IF completedPeriods = 0 THEN r
       ELSE [r EXCEPT ![i].totalPlayingTime =
               Max(0, (7 * gameSettings.periodDuration * gameSettings.playersOnCourt
                         * completedPeriods * (TimeScale \div 10)) \div presentPlayers)]

addLatePlayer(r, playerId, gameSettings, ps) ==
    LET i == FindIndex(Ids(r), playerId)
    IN IF i # 0
       THEN calculateCatchUpTime([r EXCEPT ![i].isPresent = TRUE], i, gameSettings, ps)
       ELSE r

generateNextLineup(r, gameSettings, ps) == generateOptimalLineup(r, gameSettings, ps)

\* mutant of createPeriodFromSuggestion: the period is numbered from 0
createPeriodFromSuggestionZeroBased(ps, suggestion) ==
    LET nextPeriodNumber == Len(ps)
    IN [id |-> nextPeriodNumber, number |-> nextPeriodNumber,
        lineup |-> suggestion.players, isCompleted |-> FALSE,
        actualDuration |-> Undefined]

\* mutant of createPeriodFromSuggestion: the period is created completed
createPeriodFromSuggestionCompleted(ps, suggestion) ==
    LET nextPeriodNumber == Len(ps) + 1
    IN [id |-> nextPeriodNumber, number |-> nextPeriodNumber,
        lineup |-> suggestion.players, isCompleted |-> TRUE,
        actualDuration |-> Undefined]

createPeriodFromSuggestion(ps, suggestion) ==
    LET nextPeriodNumber == Len(ps) + 1
    IN [id |-> nextPeriodNumber, number |-> nextPeriodNumber,
        lineup |-> suggestion.players, isCompleted |-> FALSE,
        actualDuration |-> Undefined]

PeriodIds(ps) == [i \in 1..Len(ps) |-> ps[i].id]

\* actualDuration || settings.periodDuration
EffectiveDuration(actualDuration, gameSettings) ==
    IF actualDuration = Undefined \/ actualDuration = 0
    THEN gameSettings.periodDuration ELSE actualDuration

\* the periods after completePeriod(periodId, actualDuration)
completePeriodPeriods(ps, gameSettings, periodId, actualDuration) ==
    LET i == FindIndex(PeriodIds(ps), periodId)
    IN IF i # 0
       THEN [ps EXCEPT ![i].isCompleted = TRUE,
                       ![i].actualDuration = EffectiveDuration(actualDuration, gameSettings)]
       ELSE ps

\* the roster after completePeriod(periodId, actualDuration): every lineup
\* slot credits the roster player of that id
completePeriodRoster(r, ps, gameSettings, periodId, actualDuration) ==
    LET i == FindIndex(PeriodIds(ps), periodId)
    IN IF i # 0
       THEN [k \in 1..Len(r) |->
               [r[k] EXCEPT !.totalPlayingTime =
                   @ + (TimeScale * EffectiveDuration(actualDuration, gameSettings)
                          * (IF FindIndex(Ids(r), r[k].id) = k
                             THEN Occurrences(ps[i].lineup, r[k].id) ELSE 0))]]
       ELSE r

\* mutant of swapPlayersOk: no check that playerInId is already in the lineup
swapPlayersOkNoLineupCheck(r, ps, periodId, playerOutId, playerInId) ==
    LET i == FindIndex(PeriodIds(ps), periodId)
    IN /\ i # 0
       /\ ~ps[i].isCompleted
       /\ FindIndex(ps[i].lineup, playerOutId) # 0
       /\ \E k \in 1..Len(r) : r[k].id = playerInId /\ r[k].isPresent

\* swapPlayers(periodId, playerOutId, playerInId): the boolean it returns
swapPlayersOk(r, ps, periodId, playerOutId, playerInId) ==
    LET i == FindIndex(PeriodIds(ps), periodId)
    IN /\ i # 0
       /\ ~ps[i].isCompleted
       /\ FindIndex(ps[i].lineup, playerOutId) # 0
       /\ \E k \in 1..Len(r) : r[k].id = playerInId /\ r[k].isPresent
       /\ ~(\E j \in 1..Len(ps[i].lineup) : ps[i].lineup[j] = playerInId)

\* mutant of swapPlayersPeriods: playerOut is removed and playerIn pushed at
\* the end of the lineup
swapPlayersPeriodsPush(r, ps, periodId, playerOutId, playerInId) ==
    LET i == FindIndex(PeriodIds(ps), periodId)
    IN IF swapPlayersOk(r, ps, periodId, playerOutId, playerInId)
       THEN [ps EXCEPT ![i].lineup =
               Append(RemoveAt(ps[i].lineup, FindIndex(ps[i].lineup, playerOutId)),
                      playerInId)]
       ELSE ps

\* swapPlayers(periodId, playerOutId, playerInId): the periods it leaves
swapPlayersPeriods(r, ps, periodId, playerOutId, playerInId) ==
    LET i == FindIndex(PeriodIds(ps), periodId)
    IN IF swapPlayersOk(r, ps, periodId, playerOutId, playerInId)
       THEN [ps EXCEPT ![i].lineup[FindIndex(ps[i].lineup, playerOutId)] = playerInId]
       ELSE ps

\* mutant of updateGameSettings: the fields that are not given are reset to
\* the default settings
updateGameSettingsResetsOthers(gameSettings, newSettings) ==
    [f \in DOMAIN gameSettings |->
        IF f \in DOMAIN newSettings THEN newSettings[f] ELSE defaultGameSettings[f]]

\* { ...settings, ...newSettings }
updateGameSettings(gameSettings, newSettings) ==
    [f \in DOMAIN gameSettings |->
        IF f \in DOMAIN newSettings THEN newSettings[f] ELSE gameSettings[f]]

\* mutant of canAddOvertimePeriod: overtime is allowed at any time
canAddOvertimePeriodAlways(ps, gameSettings) == TRUE

canAddOvertimePeriod(ps, gameSettings) == Len(ps) >= gameSettings.periodsCount

\* addOvertimePeriod(): <<>> for null, else the period it returns
addOvertimePeriod(r, gameSettings, ps) ==
    IF ~canAddOvertimePeriod(ps, gameSettings) THEN <<>>
    ELSE LET overtimePeriods == Len(ps) - gameSettings.periodsCount
         IN IF overtimePeriods >= gameSettings.overtimePeriods THEN <<>>
            ELSE <<createPeriodFromSuggestion(ps, generateNextLineup(r, gameSettings, ps))>>

\* report.sort((a, b) => a.difference - b.difference): a stable sort; the
\* differences of one report share their denominator
RECURSIVE SortReport(_)
SortReport(entries) ==
    IF entries = <<>> THEN <<>>
    ELSE LET n == Len(entries)
             x == entries[n]
             front == SortReport(SubSeq(entries, 1, n - 1))
             k == Cardinality({i \in 1..Len(front) :
                                 front[i].difference.num - x.difference.num <= 0})
         IN SubSeq(front, 1, k) \o <<x>> \o SubSeq(front, k + 1, Len(front))

\* mutant of getPeriodReport: periods that are not completed are counted too
getPeriodReportAllPeriods(r, gameSettings, ps) ==
    LET completedPeriods == CompletedCount(ps)
        presentPlayers == Len(PresentPlayers(r))
        totalPlayerPeriods == completedPeriods * gameSettings.playersOnCourt
        periodCounts == calculatePeriodCounts(r,
                           [i \in 1..Len(ps) |-> [ps[i] EXCEPT !.isCompleted = TRUE]])
        present == PresentPlayers(r)
    IN SortReport([i \in 1..Len(present) |->
          [player |-> present[i].id,
           periodsPlayed |-> CountGet(periodCounts, present[i].id),
           targetPeriods |-> [num |-> totalPlayerPeriods, den |-> presentPlayers],
           difference |-> [num |-> CountGet(periodCounts, present[i].id) * presentPlayers
                                     - totalPlayerPeriods,
                           den |-> presentPlayers]]])

\* getPeriodReport(): numbers that are quotients by the number of present
\* players are kept as [num, den] (den = 0 only when the report is empty)
getPeriodReport(r, gameSettings, ps) ==
    LET completedPeriods == CompletedCount(ps)
        presentPlayers == Len(PresentPlayers(r))
        totalPlayerPeriods == completedPeriods * gameSettings.playersOnCourt
        \* 0 for every roster player, then one more per completed lineup slot
        periodCounts == calculatePeriodCounts(r, ps)
        present == PresentPlayers(r)
    IN SortReport([i \in 1..Len(present) |->
          [player |-> present[i].id,
           periodsPlayed |-> CountGet(periodCounts, present[i].id),
           targetPeriods |-> [num |-> totalPlayerPeriods, den |-> presentPlayers],
           difference |-> [num |-> CountGet(periodCounts, present[i].id) * presentPlayers
                                     - totalPlayerPeriods,
                           den |-> presentPlayers]]])

\* mutant of getPlayingTimeReport: the entries are left in roster order
getPlayingTimeReportUnsorted(r, gameSettings) ==
    LET totalGameTime == gameSettings.periodsCount * gameSettings.periodDuration
        presentPlayers == Len(PresentPlayers(r))
        playersPerPeriod == gameSettings.playersOnCourt
        present == PresentPlayers(r)
    IN [i \in 1..Len(present) |->
          [player |-> present[i].id,
           minutes |-> present[i].totalPlayingTime,
           target |-> [num |-> totalGameTime * playersPerPeriod * TimeScale,
                       den |-> presentPlayers],
           difference |-> [num |-> present[i].totalPlayingTime * presentPlayers
                                     - totalGameTime * playersPerPeriod * TimeScale,
                           den |-> presentPlayers]]]

\* getPlayingTimeReport(): minutes, target and difference in time units; the
\* quotients by the number of present players are kept as [num, den]
getPlayingTimeReport(r, gameSettings) ==
    LET totalGameTime == gameSettings.periodsCount * gameSettings.periodDuration
        presentPlayers == Len(PresentPlayers(r))
        playersPerPeriod == gameSettings.playersOnCourt
        present == PresentPlayers(r)
    IN SortReport([i \in 1..Len(present) |->
          [player |-> present[i].id,
           minutes |-> present[i].totalPlayingTime,
           target |-> [num |-> totalGameTime * playersPerPeriod * TimeScale,
                       den |-> presentPlayers],
           difference |-> [num |-> present[i].totalPlayingTime * presentPlayers
                                     - totalGameTime * playersPerPeriod * TimeScale,
                           den |-> presentPlayers]]])

----------------------------------------------------------------------------
(* A game driven through its GameManager *)

\* ids a caller may pass: the roster's ids and one id outside the roster
PlayerIdInputs == 1..(NumPlayers + 1)

\* ids of the players whose attendance the caller changes during the game
AttendanceInputs == {NumPlayers - 1, NumPlayers + 1}

\* ids of the players a caller reports as late arrivals: the last roster
\* player and the id outside the roster
LatePlayerInputs == {NumPlayers, NumPlayers + 1}

\* period ids a caller may pass, known or not yet allocated
PeriodIdInputs == 1..MaxPeriods

\* actualDuration arguments of completePeriod: omitted, 0 and a double-length
\* period
DurationInputs == {Undefined, 0, 2 * defaultGameSettings.periodDuration}

\* newSettings arguments of updateGameSettings: a larger lineup and periods
\* of double length
SettingsInputs ==
    { [playersOnCourt |-> CourtSize + 1,
       periodDuration |-> 2 * defaultGameSettings.periodDuration] }

\* the settings of the game handed to the GameManager
gameSettingsInput ==
    [periodsCount |-> 1, periodDuration |-> defaultGameSettings.periodDuration,
     overtimePeriods |-> 1, playersOnCourt |-> CourtSize]

Init ==
    /\ roster = [i \in 1..NumPlayers |->
                   [createSampleRoster[i] EXCEPT !.isPresent = (i < NumPlayers)]]
    /\ settings = gameSettingsInput
    /\ periods = <<>>
    /\ isActive = FALSE
    /\ lineupSuggestion = <<>>
    /\ currentPeriod = NoPeriod
    /\ showRosterFromTeams = FALSE
    /\ InitTeams
    /\ ret = "none"

MarkPlayerPresent(playerId, present) ==
    /\ roster' = markPlayerPresent(roster, playerId, present)
    /\ ret' = "none"
    /\ UNCHANGED <<settings, periods, isActive, lineupSuggestion,
                   currentPeriod, showRosterFromTeams, teamVars>>

AddLatePlayer(playerId) ==
    /\ roster' = addLatePlayer(roster, playerId, settings, periods)
    /\ ret' = "none"
    /\ UNCHANGED <<settings, periods, isActive, lineupSuggestion,
                   currentPeriod, showRosterFromTeams, teamVars>>

\* the caller keeps the suggestion generateNextLineup returns
GenerateNextLineup ==
    /\ Len(periods) < MaxPeriods
    /\ lineupSuggestion' = <<generateNextLineup(roster, settings, periods)>>
    /\ ret' = "none"
    /\ UNCHANGED <<roster, settings, periods, isActive,
                   currentPeriod, showRosterFromTeams, teamVars>>

\* the caller commits the suggestion it holds: the period of
\* createPeriodFromSuggestion is appended to game.periods and the suggestion
\* is dropped
CreatePeriod ==
    /\ lineupSuggestion # <<>>
    /\ Len(periods) < MaxPeriods
    /\ periods' = Append(periods, createPeriodFromSuggestion(periods, lineupSuggestion[1]))
    /\ lineupSuggestion' = <<>>
    /\ ret' = "none"
    /\ UNCHANGED <<roster, settings, isActive, currentPeriod, showRosterFromTeams, teamVars>>

CompletePeriod(periodId, actualDuration) ==
    /\ \A k \in 1..Len(completePeriodRoster(roster, periods, settings, periodId, actualDuration)) :
          completePeriodRoster(roster, periods, settings, periodId, actualDuration)[k].totalPlayingTime
             <= MaxMinutes * TimeScale
    /\ periods' = completePeriodPeriods(periods, settings, periodId, actualDuration)
    /\ roster' = completePeriodRoster(roster, periods, settings, periodId, actualDuration)
    /\ ret' = "none"
    /\ UNCHANGED <<settings, isActive, lineupSuggestion,
                   currentPeriod, showRosterFromTeams, teamVars>>

\* addOvertimePeriod(), called when no suggestion is pending; the caller
\* appends the period it is given to game.periods
AddOvertimePeriod ==
    /\ lineupSuggestion = <<>>
    /\ addOvertimePeriod(roster, settings, periods) # <<>> => Len(periods) < MaxPeriods
    /\ periods' = periods \o addOvertimePeriod(roster, settings, periods)
    /\ ret' = IF addOvertimePeriod(roster, settings, periods) = <<>>
              THEN "null" ELSE "period"
    /\ UNCHANGED <<roster, settings, isActive, lineupSuggestion,
                   currentPeriod, showRosterFromTeams, teamVars>>

SwapPlayers(periodId, playerOutId, playerInId) ==
    /\ periods' = swapPlayersPeriods(roster, periods, periodId, playerOutId, playerInId)
    /\ ret' = IF swapPlayersOk(roster, periods, periodId, playerOutId, playerInId)
              THEN "true" ELSE "false"
    /\ UNCHANGED <<roster, settings, isActive, lineupSuggestion,
                   currentPeriod, showRosterFromTeams, teamVars>>

UpdateGameSettings(newSettings) ==
    /\ settings' = updateGameSettings(settings, newSettings)
    /\ ret' = "none"
    /\ UNCHANGED <<roster, periods, isActive, lineupSuggestion,
                   currentPeriod, showRosterFromTeams, teamVars>>

Next ==
    \/ \E playerId \in AttendanceInputs, present \in BOOLEAN :
          MarkPlayerPresent(playerId, present)
    \/ \E playerId \in LatePlayerInputs : AddLatePlayer(playerId)
    \/ GenerateNextLineup
    \/ CreatePeriod
    \/ AddOvertimePeriod
    \/ \E periodId \in PeriodIdInputs, actualDuration \in DurationInputs :
          CompletePeriod(periodId, actualDuration)
    \/ \E periodId \in PeriodIdInputs, playerOutId \in PlayerIdInputs,
          playerInId \in PlayerIdInputs :
          SwapPlayers(periodId, playerOutId, playerInId)
    \/ \E newSettings \in SettingsInputs : UpdateGameSettings(newSettings)

Spec == Init /\ [][Next]_vars

----------------------------------------------------------------------------
(* Properties of a game driven through its GameManager *)

PeriodKnown(periodId) == \E i \in 1..Len(periods) : periods[i].id = periodId

PeriodOf(periodId) == periods[FindIndex(PeriodIds(periods), periodId)]

InLineup(lineup, id) == \E j \in 1..Len(lineup) : lineup[j] = id

NoDuplicates(lineup) ==
    \A i, j \in 1..Len(lineup) : lineup[i] = lineup[j] => i = j

PlayingTimes(r) == [k \in 1..Len(r) |-> r[k].totalPlayingTime]

\* C1: completing a period that is already completed leaves every roster
\* player's totalPlayingTime as the first completion left it.
C1_SecondCompletionCreditsNothing ==
    [][\A periodId \in PeriodIdInputs, actualDuration \in DurationInputs :
          ( /\ PeriodKnown(periodId)
            /\ PeriodOf(periodId).isCompleted
            /\ CompletePeriod(periodId, actualDuration) )
          => PlayingTimes(roster') = PlayingTimes(roster)]_vars

\* minutes the completed periods holding id lasted, in time units
CompletedMinutes(ps, id) ==
    TimeScale * SumSeq([i \in 1..Len(ps) |->
                          IF ps[i].isCompleted /\ InLineup(ps[i].lineup, id)
                          THEN ps[i].actualDuration ELSE 0])

\* C2: every roster player's totalPlayingTime is the sum of actualDuration
\* over the completed periods whose lineup holds the player.
C2_TimeIsSumOfCompletedDurations ==
    \A k \in 1..Len(roster) :
        roster[k].totalPlayingTime = CompletedMinutes(periods, roster[k].id)

\* the conditions under which C5 says a swap fails
SwapInvalid(periodId, playerOutId, playerInId) ==
    \/ ~PeriodKnown(periodId)
    \/ /\ PeriodKnown(periodId)
       /\ \/ PeriodOf(periodId).isCompleted
          \/ ~InLineup(PeriodOf(periodId).lineup, playerOutId)
          \/ InLineup(PeriodOf(periodId).lineup, playerInId)
    \/ ~(\E k \in 1..Len(roster) : roster[k].id = playerInId /\ roster[k].isPresent)

\* C5: swapPlayers returns false and leaves the periods and the roster as
\* they were when the period is unknown or completed, playerOutId is not in
\* the lineup, playerInId is no present roster player or is in the lineup.
C5_InvalidSwapFails ==
    /\ [](\A periodId \in PeriodIdInputs, playerOutId \in PlayerIdInputs,
             playerInId \in PlayerIdInputs :
             SwapInvalid(periodId, playerOutId, playerInId)
             => /\ ~swapPlayersOk(roster, periods, periodId, playerOutId, playerInId)
                /\ swapPlayersPeriods(roster, periods, periodId, playerOutId, playerInId)
                      = periods)
    /\ [][ret' = "false" => (periods' = periods /\ roster' = roster)]_vars

\* a swap was refused on a period that is still open
C5_Witness ==
    /\ ret = "false"
    /\ \E i \in 1..Len(periods) : ~periods[i].isCompleted /\ Len(periods[i].lineup) > 1
    /\ \E i \in 1..Len(periods) : periods[i].isCompleted

\* C6: a valid swapPlayers returns true, puts playerInId in the slot that
\* held playerOutId, leaves every other slot, the lineup's length, the other
\* periods and every player's totalPlayingTime as they were.
C6_ValidSwapReplacesInPlace ==
    /\ [](\A periodId \in PeriodIdInputs, playerOutId \in PlayerIdInputs,
             playerInId \in PlayerIdInputs :
             ~SwapInvalid(periodId, playerOutId, playerInId)
             => LET i == FindIndex(PeriodIds(periods), periodId)
                    slot == FindIndex(periods[i].lineup, playerOutId)
                    after == swapPlayersPeriods(roster, periods, periodId,
                                                playerOutId, playerInId)
                IN /\ swapPlayersOk(roster, periods, periodId, playerOutId, playerInId)
                   /\ Len(after) = Len(periods)
                   /\ Len(after[i].lineup) = Len(periods[i].lineup)
                   /\ after[i].lineup[slot] = playerInId
                   /\ \A j \in 1..Len(periods[i].lineup) :
                         j # slot => after[i].lineup[j] = periods[i].lineup[j]
                   /\ \A q \in 1..Len(periods) : q # i => after[q] = periods[q]
                   /\ after[i].isCompleted = periods[i].isCompleted)
    /\ [][ret' = "true"
          => /\ PlayingTimes(roster') = PlayingTimes(roster)
             /\ Len(periods') = Len(periods)
             /\ \E i \in 1..Len(periods) :
                   /\ \A q \in 1..Len(periods) : q # i => periods'[q] = periods[q]
                   /\ Len(periods'[i].lineup) = Len(periods[i].lineup)
                   /\ Cardinality({j \in 1..Len(periods[i].lineup) :
                                      periods'[i].lineup[j] # periods[i].lineup[j]}) = 1]_vars

\* a swap succeeded: an open period's lineup differs from the one the
\* selector would have suggested in its order
C6_Witness ==
    /\ ret = "true"
    /\ \E i \in 1..Len(periods) :
          /\ ~periods[i].isCompleted
          /\ Len(periods[i].lineup) = settings.playersOnCourt
          /\ periods[i].lineup[1] = NumPlayers

\* C7: with pairwise distinct roster ids, no period lineup, no suggestion held
\* and no suggestion the selector would return holds a player id twice.
C7_NoDuplicateInLineup ==
    (\A i, j \in 1..Len(roster) : roster[i].id = roster[j].id => i = j)
    => /\ \A i \in 1..Len(periods) : NoDuplicates(periods[i].lineup)
       /\ \A i \in 1..Len(lineupSuggestion) : NoDuplicates(lineupSuggestion[i].players)
       /\ NoDuplicates(generateNextLineup(roster, settings, periods).players)

\* two periods with full lineups, one of them changed by a swap
C7_Witness ==
    /\ Len(periods) = 2
    /\ ret = "true"
    /\ \A i \in 1..Len(periods) : Len(periods[i].lineup) >= 2

ReportedPeriodsPlayed ==
    LET report == getPeriodReport(roster, settings, periods)
    IN SumSeq([i \in 1..Len(report) |-> report[i].periodsPlayed])

IsPresentId(id) == \E k \in 1..Len(roster) : roster[k].id = id /\ roster[k].isPresent

\* slots of completed lineups held by a player who is marked present
CompletedSlotsOfPresent ==
    SumSeq([i \in 1..Len(periods) |->
              IF periods[i].isCompleted
              THEN Cardinality({j \in 1..Len(periods[i].lineup) :
                                   IsPresentId(periods[i].lineup[j])})
              ELSE 0])

\* C10 as claimed: the periodsPlayed values of getPeriodReport sum to
\* completedPeriods * playersOnCourt.
C10_ReportSumsToCompletedTimesCourt ==
    ReportedPeriodsPlayed = CompletedCount(periods) * settings.playersOnCourt

\* C10 amended: the periodsPlayed values of getPeriodReport sum to the number
\* of completed-lineup slots held by players who are marked present; that is
\* completedPeriods * playersOnCourt when every completed lineup has
\* playersOnCourt players and all of them are marked present.
C10_ReportSumsToSlotsOfPresent ==
    /\ ReportedPeriodsPlayed = CompletedSlotsOfPresent
    /\ (\A i \in 1..Len(periods) :
           periods[i].isCompleted =>
              /\ Len(periods[i].lineup) = settings.playersOnCourt
              /\ \A j \in 1..Len(periods[i].lineup) : IsPresentId(periods[i].lineup[j]))
       => ReportedPeriodsPlayed = CompletedCount(periods) * settings.playersOnCourt

\* two completed periods, a player of one of them marked absent since
C10_Witness ==
    /\ CompletedCount(periods) = 2
    /\ ReportedPeriodsPlayed > 0
    /\ ReportedPeriodsPlayed < CompletedCount(periods) * settings.playersOnCourt
    /\ \E i \in 1..Len(periods) : \E j \in 1..Len(periods[i].lineup) :
          ~IsPresentId(periods[i].lineup[j])

\* C11: period numbers are 1-based and contiguous: the period at position i
\* of game.periods (counted from 1) has number i.
C11_PeriodNumbersContiguous ==
    \A i \in 1..Len(periods) : periods[i].number = i

\* two periods, the second one handed out by addOvertimePeriod
C11_Witness ==
    /\ Len(periods) = 2
    /\ ret = "period"

\* the condition under which addOvertimePeriod gives no period
OvertimeRefused ==
    \/ Len(periods) < settings.periodsCount
    \/ ~(Len(periods) - settings.periodsCount < settings.overtimePeriods)

\* C14: addOvertimePeriod returns null when periods.length < periodsCount or
\* when the overtime periods used so far are not fewer than
\* settings.overtimePeriods; otherwise it returns a new period that is not
\* completed and is numbered periods.length + 1.
C14_OvertimeOnlyWhenAllowed ==
    /\ [](IF OvertimeRefused
          THEN addOvertimePeriod(roster, settings, periods) = <<>>
          ELSE /\ Len(addOvertimePeriod(roster, settings, periods)) = 1
               /\ addOvertimePeriod(roster, settings, periods)[1].number = Len(periods) + 1
               /\ ~addOvertimePeriod(roster, settings, periods)[1].isCompleted)
    /\ [][/\ ret' = "null" => (OvertimeRefused /\ periods' = periods)
          /\ ret' = "period" => ~OvertimeRefused]_vars

\* addOvertimePeriod has refused after the overtime periods were used up
C14_Witness ==
    /\ ret = "null"
    /\ Len(periods) - settings.periodsCount >= settings.overtimePeriods

\* C12: once a period is completed, no later operation changes the players of
\* its lineup or its actualDuration.
C12_CompletedPeriodFrozen ==
    [][\A i \in 1..Len(periods) :
          (periods[i].isCompleted /\ i <= Len(periods'))
          => /\ periods'[i].lineup = periods[i].lineup
             /\ periods'[i].actualDuration = periods[i].actualDuration]_vars

\* the duration completePeriod is asked to record: the one given, the
\* settings' periodDuration when none is given
GivenDuration(d) == IF d = Undefined THEN settings.periodDuration ELSE d

\* C15: completePeriod(id, d) marks the period completed, records d as its
\* actualDuration for every given d (settings.periodDuration when d is
\* omitted), adds that duration to the playing time of every roster player of
\* the lineup and leaves the other players' times unchanged; an unknown id
\* changes nothing.
C15_CompletionCreditsGivenDuration ==
    [][\A periodId \in PeriodIdInputs, d \in DurationInputs :
          CompletePeriod(periodId, d)
          => LET i == FindIndex(PeriodIds(periods), periodId)
             IN IF i = 0
                THEN periods' = periods /\ roster' = roster
                ELSE /\ periods'[i].isCompleted
                     /\ periods'[i].actualDuration = GivenDuration(d)
                     /\ \A k \in 1..Len(roster) :
                           roster'[k].totalPlayingTime =
                              roster[k].totalPlayingTime
                                + (IF InLineup(periods[i].lineup, roster[k].id)
                                   THEN TimeScale * GivenDuration(d) ELSE 0)]_vars

\* C16: no operation lowers the totalPlayingTime of a roster player.
C16_PlayingTimeNeverDecreases ==
    [][\A k \in 1..Len(roster) :
          roster'[k].totalPlayingTime >= roster[k].totalPlayingTime]_vars

\* C17: addLatePlayer(p) marks p present; with c >= 1 completed periods it
\* sets p's totalPlayingTime to 70% of c * periodDuration * playersOnCourt /
\* (number of present players, p included) and leaves the other players'
\* times unchanged; with no completed period, or with p not in the roster, no
\* playing time changes.
C17_LatePlayerCredit ==
    [][\A playerId \in LatePlayerInputs :
          AddLatePlayer(playerId)
          => LET i == FindIndex(Ids(roster), playerId)
                 c == CompletedCount(periods)
             IN /\ i # 0 => roster'[i].isPresent
                /\ \A k \in 1..Len(roster) :
                      IF k = i /\ c >= 1
                      THEN 10 * Len(PresentPlayers(roster')) * roster'[k].totalPlayingTime
                             = 7 * c * settings.periodDuration * settings.playersOnCourt
                                 * TimeScale
                      ELSE roster'[k].totalPlayingTime = roster[k].totalPlayingTime]_vars

\* the late player holds a credit that is not a whole number of minutes
C17_Witness ==
    /\ CompletedCount(periods) >= 1
    /\ roster[NumPlayers].isPresent
    /\ roster[NumPlayers].totalPlayingTime % TimeScale # 0

\* the ids of the players a report lists, in the report's order
ReportPlayers(report) == [i \in 1..Len(report) |-> report[i].player]

\* report lists every present roster player once, no absent player, and its
\* differences never decrease from one entry to the next
FairnessReportOrdered(report) ==
    /\ \A k \in 1..Len(roster) :
          Occurrences(ReportPlayers(report), roster[k].id)
             = (IF roster[k].isPresent THEN 1 ELSE 0)
    /\ Len(report) = Len(PresentPlayers(roster))
    /\ \A i \in 1..(Len(report) - 1) :
          report[i].difference.num <= report[i + 1].difference.num

\* C21: getPlayingTimeReport and getPeriodReport hold one entry per present
\* roster player, none for an absent player, and are ordered by non-decreasing
\* difference (the player furthest under the target first).
C21_ReportsListPresentByDifference ==
    /\ FairnessReportOrdered(getPlayingTimeReport(roster, settings))
    /\ FairnessReportOrdered(getPeriodReport(roster, settings, periods))
    /\ \A i \in 1..Len(getPlayingTimeReport(roster, settings)) :
          LET e == getPlayingTimeReport(roster, settings)[i]
          IN /\ e.minutes = roster[FindIndex(Ids(roster), e.player)].totalPlayingTime
             /\ e.difference.num = e.minutes * e.target.den - e.target.num

\* three present players whose playing times are, in roster order, the
\* middle one, the largest and the smallest: the report lists the third
\* player, then the first, then the second
C21_Witness ==
    /\ Len(roster) = 3
    /\ \A k \in 1..3 : roster[k].isPresent
    /\ roster[3].totalPlayingTime < roster[1].totalPlayingTime
    /\ roster[1].totalPlayingTime < roster[2].totalPlayingTime
    /\ ReportPlayers(getPlayingTimeReport(roster, settings))
          = <<roster[3].id, roster[1].id, roster[2].id>>

\* C27: updateGameSettings(partial) gives the settings the fields of partial
\* and keeps the other fields; it changes no period (lineup, completion flag,
\* actualDuration) and no player (totalPlayingTime, attendance).
C27_SettingsUpdateMergesOnly ==
    [][\A newSettings \in SettingsInputs :
          UpdateGameSettings(newSettings)
          => /\ DOMAIN settings' = DOMAIN settings
             /\ \A f \in DOMAIN settings :
                   settings'[f] = (IF f \in DOMAIN newSettings
                                   THEN newSettings[f] ELSE settings[f])
             /\ periods' = periods
             /\ roster' = roster]_vars

\* the settings were updated after a period was completed: the completed
\* period keeps the lineup size and the duration of the settings it was
\* played under
C27_Witness ==
    /\ settings # gameSettingsInput
    /\ \E newSettings \in SettingsInputs :
          settings = updateGameSettings(gameSettingsInput, newSettings)
    /\ \E i \in 1..Len(periods) :
          /\ periods[i].isCompleted
          /\ Len(periods[i].lineup) = gameSettingsInput.playersOnCourt
          /\ Len(periods[i].lineup) # settings.playersOnCourt
          /\ periods[i].actualDuration = gameSettingsInput.periodDuration
          /\ periods[i].actualDuration # settings.periodDuration
    /\ \E k \in 1..Len(roster) : roster[k].totalPlayingTime > 0

\* C28: the period createPeriodFromSuggestion(s) returns is numbered
\* periods.length + 1, is not completed and has exactly the players of s as
\* its lineup; no lineup of game.periods changes when a later suggestion is
\* generated or when the suggestion is discarded.
C28_CommittedLineupIsSuggestion ==
    [][/\ CreatePeriod
          => /\ Len(periods') = Len(periods) + 1
             /\ periods'[Len(periods')].number = Len(periods) + 1
             /\ periods'[Len(periods')].id = Len(periods) + 1
             /\ ~periods'[Len(periods')].isCompleted
             /\ periods'[Len(periods')].lineup = lineupSuggestion[1].players
       /\ lineupSuggestion' # lineupSuggestion
          => \A i \in 1..Len(periods) :
                i <= Len(periods') /\ periods'[i].lineup = periods[i].lineup]_vars

\* a suggestion was committed as period 1, and a later suggestion with other
\* players is held while period 1 still has the players it was given
C28_Witness ==
    /\ Len(periods) = 1
    /\ Len(periods[1].lineup) = gameSettingsInput.playersOnCourt
    /\ lineupSuggestion # <<>>
    /\ PlayerSet(lineupSuggestion[1].players) # PlayerSet(periods[1].lineup)
    /\ periods[1].lineup = generateNextLineup(
                              [i \in 1..NumPlayers |->
                                  [createSampleRoster[i] EXCEPT !.isPresent = (i < NumPlayers)]],
                              gameSettingsInput, <<>>).players

----------------------------------------------------------------------------
(* The strict selector applied to the games a caller may hand it *)

RECURSIVE SetToSeq(_)
SetToSeq(S) ==
    IF S = {} THEN <<>> ELSE <<MinOf(S)>> \o SetToSeq(S \ {MinOf(S)})

\* a period of the history handed to the selector: number n, a lineup of
\* size players of the roster, completed (with the default duration) or not
PeriodInputs(n, size) ==
    { [id |-> n, number |-> n, lineup |-> SetToSeq(S), isCompleted |-> c,
       actualDuration |-> IF c THEN gameSettingsInput.periodDuration ELSE Undefined] :
         S \in {T \in SUBSET (1..NumPlayers) : Cardinality(T) = size},
         c \in BOOLEAN }

\* the histories handed to the selector: up to MaxPeriods periods, numbered
\* from 1
HistoryInputs(size) ==
    UNION { {h \in [1..n -> UNION {PeriodInputs(m, size) : m \in 1..n}] :
                \A i \in 1..n : h[i].id = i} : n \in 0..MaxPeriods }

\* the positions the players handed to a selector hold
PositionInputs == {"Guard", "Forward", "Center", "Any"}

\* the skill levels of the players handed to a selector: those of the sample
\* roster, or equal skills for all players but the last
SkillInputs ==
    { [i \in 1..NumPlayers |-> createSampleRoster[i].skillLevel],
      [i \in 1..NumPlayers |-> IF i < NumPlayers THEN 4 ELSE 3] }

\* the roster with the players of presentSet marked present, the positions
\* given and the playing time the completed periods of history gave each player
RosterInput(presentSet, positions, skills, history) ==
    [i \in 1..NumPlayers |->
        [createSampleRoster[i] EXCEPT
            !.isPresent = (i \in presentSet),
            !.position = positions[i],
            !.skillLevel = skills[i],
            !.totalPlayingTime =
                TimeScale * gameSettingsInput.periodDuration * PeriodsPlayed(history, i)]]

InitSelector ==
    \E presentSet \in SUBSET (1..NumPlayers), size \in 1..NumPlayers :
      \E history \in HistoryInputs(size), positions \in [1..NumPlayers -> PositionInputs],
         skills \in SkillInputs :
        /\ roster = RosterInput(presentSet, positions, skills, history)
        /\ settings = [gameSettingsInput EXCEPT !.playersOnCourt = size]
        /\ periods = history
        /\ isActive = FALSE
        /\ lineupSuggestion = <<>>
        /\ currentPeriod = NoPeriod
        /\ showRosterFromTeams = FALSE
        /\ InitTeams
        /\ ret = "none"

\* mutant of SelectLineup: the selector leaves the caller's roster reversed
SelectLineupReversesRoster ==
    /\ lineupSuggestion = <<>>
    /\ lineupSuggestion' = <<generateNextLineup(roster, settings, periods)>>
    /\ roster' = [i \in 1..Len(roster) |-> roster[Len(roster) + 1 - i]]
    /\ ret' = "none"
    /\ UNCHANGED <<settings, periods, isActive, currentPeriod, showRosterFromTeams, teamVars>>

SelectLineup ==
    /\ lineupSuggestion = <<>>
    /\ lineupSuggestion' = <<generateNextLineup(roster, settings, periods)>>
    /\ ret' = "none"
    /\ UNCHANGED <<roster, settings, periods, isActive,
                   currentPeriod, showRosterFromTeams, teamVars>>

NextSelector == SelectLineup

SpecSelector == InitSelector /\ [][NextSelector]_vars

\* C4: when a present player b is in the lineup the strict selector returns,
\* every present player a who played fewer completed periods is in it too.
C4_NeverSkipsLessPlayed ==
    lineupSuggestion # <<>> =>
       \A a, b \in 1..Len(roster) :
          ( /\ roster[a].isPresent
            /\ roster[b].isPresent
            /\ PeriodsPlayed(periods, roster[a].id) < PeriodsPlayed(periods, roster[b].id)
            /\ InLineup(lineupSuggestion[1].players, roster[b].id) )
          => InLineup(lineupSuggestion[1].players, roster[a].id)

\* a lineup that holds a less-played and a more-played player and benches a
\* third present player who has played as much as the more-played one
C4_Witness ==
    /\ lineupSuggestion # <<>>
    /\ \E a, b, c \in 1..Len(roster) :
          /\ roster[a].isPresent /\ roster[b].isPresent /\ roster[c].isPresent
          /\ PeriodsPlayed(periods, roster[a].id) < PeriodsPlayed(periods, roster[b].id)
          /\ PeriodsPlayed(periods, roster[c].id) >= PeriodsPlayed(periods, roster[b].id)
          /\ InLineup(lineupSuggestion[1].players, roster[a].id)
          /\ InLineup(lineupSuggestion[1].players, roster[b].id)
          /\ ~InLineup(lineupSuggestion[1].players, roster[c].id)

\* C8: with fewer players present than settings.playersOnCourt the strict
\* selector fails: the suggestion it returns has no players (the selector has
\* no other way to report an error).
C8_TooFewPresentSuggestsNobody ==
    ( /\ lineupSuggestion # <<>>
      /\ Len(PresentPlayers(roster)) < settings.playersOnCourt )
    => lineupSuggestion[1].players = <<>>

RemainingAt(lineup, j) ==
    {k \in 1..Len(roster) :
        roster[k].isPresent /\ ~InLineup(SubSeq(lineup, 1, j - 1), roster[k].id)}

\* the remaining candidates at step j who share the minimum periodsPlayed
TiedAt(lineup, j) ==
    {k \in RemainingAt(lineup, j) :
        \A q \in RemainingAt(lineup, j) :
           PeriodsPlayed(periods, roster[k].id) <= PeriodsPlayed(periods, roster[q].id)}

\* roster entry k has a position other than Any that no player among the
\* first j - 1 of lineup holds
FreshAt(lineup, j, k) ==
    /\ roster[k].position # "Any"
    /\ \A i \in 1..(j - 1) :
          roster[FindIndex(Ids(roster), lineup[i])].position # roster[k].position

\* C25: at each selection step of the strict selector where two or more
\* remaining candidates share the minimum periodsPlayed, the selected
\* candidate has a non-Any position not yet held in the partial lineup if a
\* tied candidate has one, and otherwise has the highest skill level of the
\* tied candidates; a lineup member with position Any represents no position.
C25_TieBreakPositionThenSkill ==
    lineupSuggestion # <<>> =>
       LET lineup == lineupSuggestion[1].players
       IN \A j \in 1..Len(lineup) :
            LET tied == TiedAt(lineup, j)
                selected == FindIndex(Ids(roster), lineup[j])
            IN Cardinality(tied) >= 2 =>
                 IF \E k \in tied : FreshAt(lineup, j, k)
                 THEN FreshAt(lineup, j, selected)
                 ELSE \A k \in tied : roster[selected].skillLevel >= roster[k].skillLevel

\* a lineup whose first player has position Any, and in which a later step
\* took a tied candidate with a new position over a tied candidate of higher
\* skill
C25_Witness ==
    /\ lineupSuggestion # <<>>
    /\ LET lineup == lineupSuggestion[1].players
       IN /\ Len(lineup) >= 2
          /\ roster[FindIndex(Ids(roster), lineup[1])].position = "Any"
          /\ \E j \in 2..Len(lineup) :
                /\ Cardinality(TiedAt(lineup, j)) >= 2
                /\ FreshAt(lineup, j, FindIndex(Ids(roster), lineup[j]))
                /\ \E k \in TiedAt(lineup, j) :
                      roster[k].skillLevel
                         > roster[FindIndex(Ids(roster), lineup[j])].skillLevel

\* the completed-period counts of the present players, with 1 added for the
\* players of the lineup
ProjectedPresentCounts(lineup) ==
    {PeriodsPlayed(periods, roster[k].id)
        + (IF InLineup(lineup, roster[k].id) THEN 1 ELSE 0) :
       k \in {q \in 1..Len(roster) : roster[q].isPresent}}

\* C24: the playingTimeBalance of the strict selector's suggestion is in 0..1
\* and equals max(0, 1 - 0.33 * (projectedMax - projectedMin)) over the
\* present players' completed-period counts, 1 added for each selected player.
C24_RotationBalanceOverPresent ==
    lineupSuggestion # <<>> =>
       LET s == lineupSuggestion[1]
           counts == ProjectedPresentCounts(s.players)
       IN /\ InUnitInterval(s.playingTimeBalance)
          /\ counts # {} =>
                s.playingTimeBalance
                   = Quotient(Max(0, 100 - 33 * (MaxOf(counts) - MinOf(counts))), 100)

----------------------------------------------------------------------------
(* The two selectors applied to games whose periods are all completed *)

\* attempts of generateCandidateLineups, after attempt 0, whose shuffle draws
\* are free; the attempts after them draw index 0 in every swap, which leaves
\* the order of attempt 0 and so rebuilds its candidate
ShuffledAttempts == 1

\* the values Math.floor(Math.random() * array.length) takes in the shuffles
\* of the attempts 1..ShuffledAttempts, for an array of n players: attempt a
\* draws Math.min(3, a) times
DrawInputs(n) ==
    { draws \in [1..ShuffledAttempts ->
                   UNION {[1..m -> 0..Max(n - 1, 0)] : m \in 1..3}] :
         \A a \in 1..ShuffledAttempts : Len(draws[a]) = (IF a < 3 THEN a ELSE 3) }

InitWeighted ==
    \E presentSet \in SUBSET (1..NumPlayers), size \in 1..NumPlayers :
      \E history \in HistoryInputs(size), positions \in [1..NumPlayers -> PositionInputs],
         skills \in SkillInputs :
        /\ \A i \in 1..Len(history) : history[i].isCompleted
        /\ roster = RosterInput(presentSet, positions, skills, history)
        /\ settings = [gameSettingsInput EXCEPT !.playersOnCourt = size]
        /\ periods = history
        /\ isActive = FALSE
        /\ lineupSuggestion = <<>>
        /\ currentPeriod = NoPeriod
        /\ showRosterFromTeams = FALSE
        /\ InitTeams
        /\ ret = "none"

\* mutant of SelectWeightedLineup: the candidates' sort is done on the
\* caller's roster
SelectWeightedLineupSortsRoster(draws) ==
    /\ lineupSuggestion = <<>>
    /\ ~weightedThrows(roster, settings, draws)
    /\ lineupSuggestion' = <<weightedOptimalLineup(roster, settings, draws)>>
    /\ roster' = SortByPlayingTime(roster)
    /\ ret' = "none"
    /\ UNCHANGED <<settings, periods, isActive, currentPeriod, showRosterFromTeams, teamVars>>

\* new LineupGenerator(roster, settings, periods).generateOptimalLineup(); the
\* caller keeps the suggestion it returns
SelectWeightedLineup(draws) ==
    /\ lineupSuggestion = <<>>
    /\ IF weightedThrows(roster, settings, draws)
       THEN lineupSuggestion' = <<>> /\ ret' = "TypeError"
       ELSE /\ lineupSuggestion' = <<weightedOptimalLineup(roster, settings, draws)>>
            /\ ret' = "none"
    /\ UNCHANGED <<roster, settings, periods, isActive,
                   currentPeriod, showRosterFromTeams, teamVars>>

NextWeighted ==
    \/ SelectLineup
    \/ \E draws \in DrawInputs(Len(PresentPlayers(roster))) : SelectWeightedLineup(draws)

SpecWeighted == InitWeighted /\ [][NextWeighted]_vars

\* C18: selectors are read-only: a call of a selector (the strict selector
\* through GameManager.generateNextLineup, the weighted-candidate selector)
\* leaves the roster, the settings and the periods exactly as they were.
C18_SelectorsReadOnly ==
    [][(SelectLineup
          \/ \E draws \in DrawInputs(Len(PresentPlayers(roster))) :
                SelectWeightedLineup(draws))
       => (roster' = roster /\ settings' = settings /\ periods' = periods)]_vars

\* a suggestion was generated from a roster that is not in the selectors'
\* sorted order, with players who have played
C18_Witness ==
    /\ lineupSuggestion # <<>>
    /\ CompletedCount(periods) >= 1
    /\ roster # SortByPlayingTime(roster)
    /\ \E k \in 1..Len(roster) : roster[k].totalPlayingTime > 0

\* C20: the weighted-candidate selector selects the same set of players
\* whatever values the shuffles draw.
C20_WeightedSelectionIgnoresDraws ==
    \A d1, d2 \in DrawInputs(Len(PresentPlayers(roster))) :
       (~weightedThrows(roster, settings, d1) /\ ~weightedThrows(roster, settings, d2))
       => PlayerSet(weightedOptimalLineup(roster, settings, d1).players)
            = PlayerSet(weightedOptimalLineup(roster, settings, d2).players)

\* the positions held by the players of the suggestion
SuggestedPositions(suggestion) ==
    {roster[FindIndex(Ids(roster), suggestion.players[i])].position :
        i \in 1..Len(suggestion.players)}

\* C23 as claimed: the positionBalance of every lineup a selector returns is
\* in [0, 1], and is 1 exactly when the lineup has at least 3 players and
\* holds a Guard, a Forward and a Center.
C23_PositionBalanceOneIffAllThree ==
    \A i \in 1..Len(lineupSuggestion) :
       LET s == lineupSuggestion[i]
       IN /\ InUnitInterval(s.positionBalance)
          /\ (s.positionBalance.num = s.positionBalance.den)
                <=> ( /\ Len(s.players) >= 3
                      /\ {"Guard", "Forward", "Center"} \subseteq SuggestedPositions(s) )

\* C23 amended: the positionBalance of every lineup of at least one player
\* that a selector returns is in [0, 1]; it is 1 exactly when the lineup
\* holds min(3, lineup size) different positions other than Any, which for a
\* lineup of 3 players or more means a Guard, a Forward and a Center.
C23_PositionBalanceOneIffAllPossible ==
    \A i \in 1..Len(lineupSuggestion) :
       LET s == lineupSuggestion[i]
           held == SuggestedPositions(s) \ {"Any"}
       IN s.players # <<>> =>
            /\ InUnitInterval(s.positionBalance)
            /\ (s.positionBalance.num = s.positionBalance.den)
                  <=> Cardinality(held) = (IF Len(s.players) < 3 THEN Len(s.players) ELSE 3)
            /\ Len(s.players) >= 3 =>
                  ( (s.positionBalance.num = s.positionBalance.den)
                       <=> {"Guard", "Forward", "Center"} \subseteq held )

\* the weighted-candidate selector returned three players with a Guard, a
\* Forward and a Center: the balance is 1
C23_Witness ==
    /\ lineupSuggestion # <<>>
    /\ "oneMinusSqrtOf" \in DOMAIN lineupSuggestion[1].playingTimeBalance
    /\ Len(lineupSuggestion[1].players) = 3
    /\ SuggestedPositions(lineupSuggestion[1]) = {"Guard", "Forward", "Center"}
    /\ lineupSuggestion[1].positionBalance = Quotient(3, 3)

\* C30: the lineup the weighted-candidate selector returns is one of the
\* candidates it generated, and no other candidate has a higher score
\* 0.75 * timeBalance + 0.15 * positionBalance + 0.10 * skillBalance.
C30_WeightedReturnsBestCandidate ==
    \A draws \in DrawInputs(Len(PresentPlayers(roster))) :
       ~weightedThrows(roster, settings, draws)
       => LET present == PresentPlayers(roster)
              candidates == generateCandidateLineups(present, settings, draws)
              returned == weightedOptimalLineup(roster, settings, draws).players
          IN \E b \in 1..Len(candidates) :
                /\ Ids(candidates[b]) = returned
                /\ \A c \in 1..Len(candidates) :
                      ~ScoresHigher(candidates[c], candidates[b], present, settings)

\* the selector returned the candidate of a shuffled attempt, which scores
\* higher than the candidate of attempt 0
C30_Witness ==
    /\ lineupSuggestion # <<>>
    /\ "oneMinusSqrtOf" \in DOMAIN lineupSuggestion[1].playingTimeBalance
    /\ \E draws \in DrawInputs(Len(PresentPlayers(roster))) :
          LET present == PresentPlayers(roster)
              candidates == generateCandidateLineups(present, settings, draws)
          IN /\ Len(candidates) = 2
             /\ ScoresHigher(candidates[2], candidates[1], present, settings)
             /\ lineupSuggestion[1].players = Ids(candidates[2])

\* the Player records of the suggestion's players
SuggestedPlayers(suggestion) ==
    [i \in 1..Len(suggestion.players) |->
        roster[FindIndex(Ids(roster), suggestion.players[i])]]

\* C31: the weighted-candidate selector scores a lineup 50% playing time, 30%
\* position balance and 20% skill balance: the score evaluateLineup gives the
\* lineup it returns is 0.5 * playingTimeBalance + 0.3 * positionBalance
\* + 0.2 * skillBalance.
C31_ScoredByReadmeWeights ==
    \A i \in 1..Len(lineupSuggestion) :
       "oneMinusSqrtOf" \in DOMAIN lineupSuggestion[i].playingTimeBalance
       => ScoresAgree(SuggestedPlayers(lineupSuggestion[i]), PresentPlayers(roster),
                      settings, evaluateLineupWeights, readmeWeights)

\* lineup, a sequence of ids, has settings.playersOnCourt players, pairwise
\* distinct and all of them present players of the roster
IsFullLineup(lineup) ==
    /\ Len(lineup) = settings.playersOnCourt
    /\ \A i, j \in 1..Len(lineup) : i # j => lineup[i] # lineup[j]
    /\ \A i \in 1..Len(lineup) :
          \E k \in 1..Len(roster) : roster[k].id = lineup[i] /\ roster[k].isPresent

\* C37: with at least playersOnCourt present players, the strict selector and
\* the weighted-candidate selector each return exactly playersOnCourt
\* players, pairwise distinct by id and all marked present.
C37_SelectorsReturnFullLineup ==
    Len(PresentPlayers(roster)) >= settings.playersOnCourt
    => /\ IsFullLineup(generateNextLineup(roster, settings, periods).players)
       /\ \A draws \in DrawInputs(Len(PresentPlayers(roster))) :
             /\ ~weightedThrows(roster, settings, draws)
             /\ IsFullLineup(weightedOptimalLineup(roster, settings, draws).players)

\* a selector has returned a lineup of two players or more that leaves a
\* present player on the bench
C37_Witness ==
    /\ lineupSuggestion # <<>>
    /\ settings.playersOnCourt >= 2
    /\ Len(PresentPlayers(roster)) > settings.playersOnCourt
    /\ IsFullLineup(lineupSuggestion[1].players)

----------------------------------------------------------------------------
(* The progress of a game without overtime *)

\* getGameProgress()
getGameProgress(gameSettings, ps) ==
    LET completed == CompletedCount(ps)
        total == gameSettings.periodsCount + gameSettings.overtimePeriods
    IN [completedPeriods |-> completed,
        totalPeriods |-> total,
        timeRemaining |-> (total - completed) * gameSettings.periodDuration]

\* the settings of a game of one period without overtime
singlePeriodSettingsInput == [gameSettingsInput EXCEPT !.overtimePeriods = 0]

InitProgress ==
    /\ roster = [i \in 1..NumPlayers |->
                   [createSampleRoster[i] EXCEPT !.isPresent = (i < NumPlayers)]]
    /\ settings = singlePeriodSettingsInput
    /\ periods = <<>>
    /\ isActive = FALSE
    /\ lineupSuggestion = <<>>
    /\ currentPeriod = NoPeriod
    /\ showRosterFromTeams = FALSE
    /\ InitTeams
    /\ ret = "none"

SpecProgress == InitProgress /\ [][Next]_vars

\* C34: game.periods never holds more than periodsCount + overtimePeriods
\* periods, so getGameProgress reports completedPeriods <= totalPeriods and
\* timeRemaining >= 0.
C34_PeriodsWithinTotal ==
    /\ Len(periods) <= settings.periodsCount + settings.overtimePeriods
    /\ getGameProgress(settings, periods).completedPeriods
          <= getGameProgress(settings, periods).totalPeriods
    /\ getGameProgress(settings, periods).timeRemaining >= 0

----------------------------------------------------------------------------
(* The strict selector on six present players who have played 0, 0, 1, 1, 2
   and 2 periods, with a lineup of 5 *)

\* P1..P6
ScenarioIds == 1..6

\* two completed periods that leave P1, P2 at 0, P3, P4 at 1 and P5, P6 at 2
\* periods played
ScenarioHistory ==
    << [id |-> 1, number |-> 1, lineup |-> <<3, 4, 5, 6>>, isCompleted |-> TRUE,
        actualDuration |-> defaultGameSettings.periodDuration],
       [id |-> 2, number |-> 2, lineup |-> <<5, 6>>, isCompleted |-> TRUE,
        actualDuration |-> defaultGameSettings.periodDuration] >>

\* the skill levels of P1..P6: those of the sample roster, where P5 is below
\* P6, or with the skills of P5 and P6 exchanged
ScenarioSkillInputs ==
    { [i \in ScenarioIds |-> createSampleRoster[i].skillLevel],
      [i \in ScenarioIds |-> createSampleRoster[IF i = 5 THEN 6
                                                 ELSE IF i = 6 THEN 5 ELSE i].skillLevel] }

InitScenario ==
    \E positions \in [ScenarioIds -> PositionInputs], skills \in ScenarioSkillInputs :
        /\ roster = [i \in ScenarioIds |->
                       [createSampleRoster[i] EXCEPT
                           !.isPresent = TRUE,
                           !.position = positions[i],
                           !.skillLevel = skills[i],
                           !.totalPlayingTime =
                               TimeScale * defaultGameSettings.periodDuration
                                 * PeriodsPlayed(ScenarioHistory, i)]]
        /\ settings = defaultGameSettings
        /\ periods = ScenarioHistory
        /\ isActive = FALSE
        /\ lineupSuggestion = <<>>
        /\ currentPeriod = NoPeriod
        /\ showRosterFromTeams = FALSE
        /\ InitTeams
        /\ ret = "none"

NextScenario == SelectLineup

SpecScenario == InitScenario /\ [][NextScenario]_vars

\* the one of P5 and P6 with the higher skill level
HigherSkilled == IF roster[5].skillLevel > roster[6].skillLevel THEN 5 ELSE 6

\* P5 or P6 holds a position other than Any that none of P1..P4 holds
ScenarioFresh(k) ==
    /\ roster[k].position # "Any"
    /\ \A i \in 1..4 : roster[i].position # roster[k].position

\* C26 as claimed: the strict selector picks P1, P2, P3, P4 and the one of P5
\* and P6 with the higher skill level, whatever the positions.
C26_FifthSlotByHigherSkill ==
    lineupSuggestion # <<>>
    => PlayerSet(lineupSuggestion[1].players) = {1, 2, 3, 4, HigherSkilled}

\* C26 amended: the strict selector picks P1, P2, P3, P4 and fills the fifth
\* slot by the tie-break: the one of P5 and P6 that holds a non-Any position
\* none of P1..P4 holds when exactly one of them does, and the one with the
\* higher skill level otherwise.
C26_FifthSlotByTieBreak ==
    lineupSuggestion # <<>>
    => /\ Len(lineupSuggestion[1].players) = 5
       /\ PlayerSet(lineupSuggestion[1].players)
            = {1, 2, 3, 4,
               IF ScenarioFresh(5) /\ ~ScenarioFresh(6) THEN 5
               ELSE IF ScenarioFresh(6) /\ ~ScenarioFresh(5) THEN 6
               ELSE HigherSkilled}

\* the fifth slot went to the lower-skilled of P5 and P6, who holds a
\* position that P1..P4 lack
C26_Witness ==
    /\ lineupSuggestion # <<>>
    /\ PlayerSet(lineupSuggestion[1].players) = {1, 2, 3, 4, 11 - HigherSkilled}
    /\ ScenarioFresh(11 - HigherSkilled)
    /\ roster[5].skillLevel # roster[6].skillLevel

----------------------------------------------------------------------------
(* The fairness reports of games whose periods are all completed *)

\* what a caller of a report gets back: the array, which is empty when no
\* roster player is present; neither report has a throw statement, and the
\* quotient by presentPlayers.length = 0 (Infinity or NaN) is kept in a local
\* constant that no entry reads
ReportOutcome(report) == IF report = <<>> THEN "emptyReport" ELSE "report"

\* gameManager.getPlayingTimeReport()
GetPlayingTimeReport ==
    /\ ret = "none"
    /\ ret' = ReportOutcome(getPlayingTimeReport(roster, settings))
    /\ UNCHANGED <<roster, settings, periods, isActive, lineupSuggestion,
                   currentPeriod, showRosterFromTeams, teamVars>>

\* gameManager.getPeriodReport()
GetPeriodReport ==
    /\ ret = "none"
    /\ ret' = ReportOutcome(getPeriodReport(roster, settings, periods))
    /\ UNCHANGED <<roster, settings, periods, isActive, lineupSuggestion,
                   currentPeriod, showRosterFromTeams, teamVars>>

NextReport == GetPlayingTimeReport \/ GetPeriodReport

SpecReport == InitWeighted /\ [][NextReport]_vars

\* C22: with no roster player present, getPlayingTimeReport and
\* getPeriodReport report a failure to the caller: they do not return a
\* normal result.
C22_NoPresentReportFails ==
    [][((GetPlayingTimeReport \/ GetPeriodReport) /\ PresentPlayers(roster) = <<>>)
       => ret' \notin {"report", "emptyReport"}]_vars

----------------------------------------------------------------------------
(* Strict rotation: every period is the selector's suggestion *)

InitRotation ==
    \E presentSet \in SUBSET (1..NumPlayers), size \in 1..NumPlayers,
       positions \in [1..NumPlayers -> PositionInputs], skills \in SkillInputs :
        /\ Cardinality(presentSet) >= size
        /\ roster = RosterInput(presentSet, positions, skills, <<>>)
        /\ settings = [gameSettingsInput EXCEPT !.playersOnCourt = size]
        /\ periods = <<>>
        /\ isActive = FALSE
        /\ lineupSuggestion = <<>>
        /\ currentPeriod = NoPeriod
        /\ showRosterFromTeams = FALSE
        /\ InitTeams
        /\ ret = "none"

\* generateNextLineup, once every period is completed
RotationSuggest ==
    /\ lineupSuggestion = <<>>
    /\ \A i \in 1..Len(periods) : periods[i].isCompleted
    /\ Len(periods) < MaxRotationPeriods
    /\ lineupSuggestion' = <<generateNextLineup(roster, settings, periods)>>
    /\ ret' = "none"
    /\ UNCHANGED <<roster, settings, periods, isActive,
                   currentPeriod, showRosterFromTeams, teamVars>>

\* the suggestion becomes the next period
RotationStart ==
    /\ lineupSuggestion # <<>>
    /\ periods' = Append(periods, createPeriodFromSuggestion(periods, lineupSuggestion[1]))
    /\ lineupSuggestion' = <<>>
    /\ ret' = "none"
    /\ UNCHANGED <<roster, settings, isActive, currentPeriod, showRosterFromTeams, teamVars>>

\* completePeriod(id) of the open period
RotationComplete ==
    \E i \in 1..Len(periods) :
        /\ ~periods[i].isCompleted
        /\ periods' = completePeriodPeriods(periods, settings, periods[i].id, Undefined)
        /\ roster' = completePeriodRoster(roster, periods, settings, periods[i].id, Undefined)
        /\ ret' = "none"
        /\ UNCHANGED <<settings, isActive, lineupSuggestion,
                       currentPeriod, showRosterFromTeams, teamVars>>

NextRotation == RotationSuggest \/ RotationStart \/ RotationComplete

SpecRotation == InitRotation /\ [][NextRotation]_vars

PresentPeriodCounts ==
    {PeriodsPlayed(periods, roster[k].id) : k \in {q \in 1..Len(roster) : roster[q].isPresent}}

\* C3: under strict rotation with a fixed set of present players, the largest
\* and the smallest number of completed periods played among the present
\* players differ by at most 1.
C3_RotationSpreadAtMostOne ==
    PresentPeriodCounts # {} => MaxOf(PresentPeriodCounts) - MinOf(PresentPeriodCounts) <= 1

\* several periods played with a bench: the counts differ by exactly 1 and
\* some player has sat out more than once
C3_Witness ==
    /\ CompletedCount(periods) >= 4
    /\ Len(PresentPlayers(roster)) > settings.playersOnCourt
    /\ MaxOf(PresentPeriodCounts) - MinOf(PresentPeriodCounts) = 1
    /\ MinOf(PresentPeriodCounts) >= 2

----------------------------------------------------------------------------
(* The App: its event handlers on the game, the suggestion and the current
   period *)

\* players whose attendance is toggled on the Roster tab during a game
InGameToggleInputs == {RosterSize - 1, RosterSize}

\* lineup players the coach selects to take off during a period
SwapOutInputs == {1, RosterSize}

\* the roster edits of the coach: players are deleted and added before a game,
\* and the first player's form is corrected during a game
EditPlayerInputs == IF isActive THEN {1} ELSE {}
DeletePlayerInputs == IF isActive THEN {} ELSE {RosterSize}

\* what the coach leaves in the player form: the skill level and the position
\* the form of a new player starts with
PlayerFormInputs == {[skillLevel |-> 3, position |-> "Any"]}
AddPlayerInputs == IF isActive THEN {} ELSE PlayerFormInputs

InitApp ==
    /\ roster = ActiveTeam(createDefaultCoachProfile).players
    /\ settings = defaultGameSettings
    /\ periods = <<>>
    /\ isActive = FALSE
    /\ lineupSuggestion = <<>>
    /\ currentPeriod = NoPeriod
    /\ showRosterFromTeams = FALSE
    /\ InitTeams
    /\ ret = "none"

\* the roster screen is rendered: before the game from the teams screen, and
\* on the Roster tab during the game
RosterScreenShown == isActive \/ showRosterFromTeams

\* the teams screen is rendered: before the game until the roster is shown,
\* and on the Teams tab during the game
TeamsScreenShown == isActive \/ ~showRosterFromTeams

\* TeamsScreen: onGoToRoster
OnGoToRoster ==
    /\ ~isActive
    /\ ~showRosterFromTeams
    /\ ~showTeamEdit
    /\ showRosterFromTeams' = TRUE
    /\ ret' = "none"
    /\ UNCHANGED <<roster, settings, periods, isActive, lineupSuggestion,
                   currentPeriod, teamVars>>

\* roster.map(player => player.id === playerId ? { ...player, isPresent } : player)
handlePlayerToggle(r, playerId, present) ==
    [k \in 1..Len(r) |->
        IF r[k].id = playerId THEN [r[k] EXCEPT !.isPresent = present] ELSE r[k]]

\* RosterScreen: onPlayerToggle(player.id, !player.isPresent)
HandlePlayerToggle(k) ==
    /\ RosterScreenShown
    /\ ~showTeamEdit
    /\ isActive => roster[k].id \in InGameToggleInputs
    /\ roster' = handlePlayerToggle(roster, roster[k].id, ~roster[k].isPresent)
    /\ ret' = "none"
    /\ UNCHANGED <<settings, periods, isActive, lineupSuggestion,
                   currentPeriod, showRosterFromTeams, teamVars>>

\* prev.teams.map(team => team.id === prev.activeTeamId ? { ...team, players } : team)
updateActiveTeamPlayers(profile, players) ==
    [profile EXCEPT !.teams =
        [t \in 1..Len(profile.teams) |->
            IF profile.teams[t].id = profile.activeTeamId
            THEN [profile.teams[t] EXCEPT !.players = players]
            ELSE profile.teams[t]]]

\* PlayerEditModal.handleSave on the player being edited: the form's skill
\* level and position, the player's id, isPresent and totalPlayingTime
updatedPlayer(player, form) ==
    [player EXCEPT !.skillLevel = form.skillLevel, !.position = form.position]

\* PlayerEditModal.handleSave without a player being edited
newPlayer(form) ==
    [id |-> PlayerIdAt(now), skillLevel |-> form.skillLevel,
     position |-> form.position, isPresent |-> FALSE, totalPlayingTime |-> 0]

\* RosterScreen: a player card's edit button, the form saved;
\* App.handlePlayerUpdate
HandlePlayerUpdate(k, form) ==
    /\ RosterScreenShown
    /\ ~showTeamEdit
    /\ roster[k].id \in EditPlayerInputs
    \* the coach changes the form
    /\ updatedPlayer(roster[k], form) # roster[k]
    /\ LET updatedRoster ==
              [j \in 1..Len(roster) |->
                  IF roster[j].id = roster[k].id
                  THEN updatedPlayer(roster[k], form) ELSE roster[j]]
       IN /\ roster' = updatedRoster
          /\ coachProfile' = updateActiveTeamPlayers(coachProfile, updatedRoster)
    /\ ret' = "none"
    /\ UNCHANGED <<settings, periods, isActive, lineupSuggestion, currentPeriod,
                   showRosterFromTeams, teamId, showTeamEdit, editingTeam, now>>

\* RosterScreen: the add button, the form saved; App.handlePlayerAdd
HandlePlayerAdd(form) ==
    /\ RosterScreenShown
    /\ ~showTeamEdit
    /\ Len(roster) < RosterSize
    /\ now <= MaxClock
    /\ LET updatedRoster == Append(roster, newPlayer(form))
       IN /\ roster' = updatedRoster
          /\ coachProfile' = updateActiveTeamPlayers(coachProfile, updatedRoster)
    /\ now' = now + 1
    /\ ret' = "none"
    /\ UNCHANGED <<settings, periods, isActive, lineupSuggestion, currentPeriod,
                   showRosterFromTeams, teamId, showTeamEdit, editingTeam>>

\* RosterScreen: a player card's edit button, the delete button confirmed;
\* App.handlePlayerDelete
HandlePlayerDelete(k) ==
    /\ RosterScreenShown
    /\ ~showTeamEdit
    /\ roster[k].id \in DeletePlayerInputs
    /\ LET updatedRoster == SelectSeq(roster, LAMBDA player : player.id # roster[k].id)
       IN /\ roster' = updatedRoster
          /\ coachProfile' = updateActiveTeamPlayers(coachProfile, updatedRoster)
    /\ ret' = "none"
    /\ UNCHANGED <<settings, periods, isActive, lineupSuggestion, currentPeriod,
                   showRosterFromTeams, teamId, showTeamEdit, editingTeam, now>>

\* mutant of HandleStartGame: the start is not refused when fewer than 5
\* players are present
HandleStartGameUnguarded ==
    /\ ~isActive
    /\ showRosterFromTeams
    /\ ~showTeamEdit
    /\ isActive' = TRUE
    /\ lineupSuggestion' = <<generateNextLineup(roster, settings, periods)>>
    /\ currentPeriod' = NoPeriod
    /\ ret' = "none"
    /\ UNCHANGED <<roster, settings, periods, showRosterFromTeams, teamVars>>

\* RosterScreen.handleStartGame, then App.handleStartGame and the
\* handleGenerateLineup it calls
HandleStartGame ==
    /\ ~isActive
    /\ showRosterFromTeams
    /\ ~showTeamEdit
    /\ ~(Len(PresentPlayers(roster)) < MinPlayersToStart)
    /\ isActive' = TRUE
    /\ lineupSuggestion' = <<generateNextLineup(roster, settings, periods)>>
    /\ currentPeriod' = NoPeriod
    /\ ret' = "none"
    /\ UNCHANGED <<roster, settings, periods, showRosterFromTeams, teamVars>>

\* mutant of HandleGenerateLineup: the generate button is shown during a
\* period too
HandleGenerateLineupDuringPeriod ==
    /\ isActive
    /\ ~showTeamEdit
    /\ lineupSuggestion = <<>>
    /\ Len(periods) < MaxPeriods
    /\ lineupSuggestion' = <<generateNextLineup(roster, settings, periods)>>
    /\ currentPeriod' = NoPeriod
    /\ ret' = "none"
    /\ UNCHANGED <<roster, settings, periods, isActive, showRosterFromTeams, teamVars>>

\* GameScreen: the generate button, shown without current period and suggestion
HandleGenerateLineup ==
    /\ isActive
    /\ ~showTeamEdit
    /\ currentPeriod = NoPeriod
    /\ lineupSuggestion = <<>>
    /\ Len(periods) < MaxPeriods
    /\ lineupSuggestion' = <<generateNextLineup(roster, settings, periods)>>
    /\ currentPeriod' = NoPeriod
    /\ ret' = "none"
    /\ UNCHANGED <<roster, settings, periods, isActive, showRosterFromTeams, teamVars>>

\* GameScreen.renderSuggestion: the period the accept button builds
acceptedPeriod(ps, suggestion) ==
    [id |-> Len(ps) + 1, number |-> Len(ps) + 1, lineup |-> suggestion.players,
     isCompleted |-> FALSE, actualDuration |-> Undefined]

\* GameScreen: the accept button, then App.handleStartPeriod
HandleStartPeriod ==
    /\ isActive
    /\ ~showTeamEdit
    /\ lineupSuggestion # <<>>
    /\ currentPeriod = NoPeriod
    /\ Len(periods) < MaxPeriods
    /\ periods' = Append(periods, acceptedPeriod(periods, lineupSuggestion[1]))
    /\ currentPeriod' = acceptedPeriod(periods, lineupSuggestion[1]).id
    /\ lineupSuggestion' = <<>>
    /\ ret' = "none"
    /\ UNCHANGED <<roster, settings, isActive, showRosterFromTeams, teamVars>>

\* prev.periods.map(p => p.id === periodId
\*    ? { ...p, isCompleted: true, actualDuration: prev.settings.periodDuration } : p)
handleCompletePeriodPeriods(ps, gameSettings, periodId) ==
    [i \in 1..Len(ps) |->
        IF ps[i].id = periodId
        THEN [ps[i] EXCEPT !.isCompleted = TRUE,
                           !.actualDuration = gameSettings.periodDuration]
        ELSE ps[i]]

\* GameScreen: the complete button of the current period, then
\* App.handleCompletePeriod
HandleCompletePeriod ==
    /\ isActive
    /\ ~showTeamEdit
    /\ currentPeriod # NoPeriod
    /\ ~PeriodOf(currentPeriod).isCompleted
    /\ roster' = completePeriodRoster(roster, periods, settings, currentPeriod, Undefined)
    /\ periods' = handleCompletePeriodPeriods(
                     completePeriodPeriods(periods, settings, currentPeriod, Undefined),
                     settings, currentPeriod)
    /\ currentPeriod' = NoPeriod
    /\ lineupSuggestion' = <<>>
    /\ ret' = "none"
    /\ UNCHANGED <<settings, isActive, showRosterFromTeams, teamVars>>

\* GameScreen: a lineup player is selected, then a bench player is tapped;
\* App.handleSwapPlayer
HandleSwapPlayer(playerOutId, playerInId) ==
    /\ isActive
    /\ ~showTeamEdit
    /\ currentPeriod # NoPeriod
    /\ InLineup(PeriodOf(currentPeriod).lineup, playerOutId)
    /\ IsPresentId(playerInId)
    /\ ~InLineup(PeriodOf(currentPeriod).lineup, playerInId)
    /\ periods' = swapPlayersPeriods(roster, periods, currentPeriod, playerOutId, playerInId)
    /\ ret' = IF swapPlayersOk(roster, periods, currentPeriod, playerOutId, playerInId)
              THEN "true" ELSE "false"
    /\ UNCHANGED <<roster, settings, isActive, lineupSuggestion,
                   currentPeriod, showRosterFromTeams, teamVars>>

\* TeamsScreen: the team card is pressed, on the teams screen before the game
\* (which then goes to the roster when the team is the active one already) or
\* on the Teams tab during the game; App.handleTeamSelect
HandleTeamSelect(t) ==
    /\ TeamsScreenShown
    /\ ~showTeamEdit
    /\ LET team == coachProfile.teams[t]
       IN /\ coachProfile' = [coachProfile EXCEPT !.activeTeamId = team.id]
          /\ teamId' = team.id
          /\ roster' = team.players
          /\ showRosterFromTeams' =
                (IF ~isActive /\ team.id = coachProfile.activeTeamId
                 THEN TRUE ELSE showRosterFromTeams)
    /\ periods' = <<>>
    /\ isActive' = FALSE
    /\ currentPeriod' = NoPeriod
    /\ lineupSuggestion' = <<>>
    /\ ret' = "none"
    /\ UNCHANGED <<settings, showTeamEdit, editingTeam, now>>

\* TeamsScreen: canCreateMoreTeams
canCreateMoreTeams(profile) == profile.isPremium \/ Len(profile.teams) = 0

\* TeamsScreen: the upgrade button, shown in place of the create button;
\* App.handleUpgradeToPremium
HandleUpgradeToPremium ==
    /\ TeamsScreenShown
    /\ ~showTeamEdit
    /\ ~canCreateMoreTeams(coachProfile)
    /\ coachProfile' = [coachProfile EXCEPT !.isPremium = TRUE]
    /\ ret' = "none"
    /\ UNCHANGED <<roster, settings, periods, isActive, lineupSuggestion, currentPeriod,
                   showRosterFromTeams, teamId, showTeamEdit, editingTeam, now>>

\* TeamsScreen: the edit button of a team card; App.handleTeamEdit
HandleTeamEdit(t) ==
    /\ TeamsScreenShown
    /\ ~showTeamEdit
    /\ editingTeam' = <<coachProfile.teams[t]>>
    /\ showTeamEdit' = TRUE
    /\ ret' = "none"
    /\ UNCHANGED <<roster, settings, periods, isActive, lineupSuggestion, currentPeriod,
                   showRosterFromTeams, coachProfile, teamId, now>>

\* TeamsScreen: the create button; App.handleCreateTeam
HandleCreateTeam ==
    /\ TeamsScreenShown
    /\ ~showTeamEdit
    /\ canCreateMoreTeams(coachProfile)
    /\ editingTeam' = <<>>
    /\ showTeamEdit' = TRUE
    /\ ret' = "none"
    /\ UNCHANGED <<roster, settings, periods, isActive, lineupSuggestion, currentPeriod,
                   showRosterFromTeams, coachProfile, teamId, now>>

\* TeamEditModal: onCancel
OnCancel ==
    /\ showTeamEdit
    /\ showTeamEdit' = FALSE
    /\ editingTeam' = <<>>
    /\ ret' = "none"
    /\ UNCHANGED <<roster, settings, periods, isActive, lineupSuggestion, currentPeriod,
                   showRosterFromTeams, coachProfile, teamId, now>>

\* TeamEditModal.handleSave: the team handed to onSave
savedTeam ==
    [id |-> IF editingTeam # <<>> THEN editingTeam[1].id ELSE TeamIdAt(now),
     players |-> IF editingTeam # <<>> THEN editingTeam[1].players ELSE <<>>]

\* TeamEditModal: the save button; App.handleTeamSave
HandleTeamSave ==
    /\ showTeamEdit
    /\ LET team == savedTeam
       IN IF editingTeam # <<>>
          THEN /\ coachProfile' =
                     [coachProfile EXCEPT !.teams =
                         [t \in 1..Len(coachProfile.teams) |->
                             IF coachProfile.teams[t].id = team.id
                             THEN team ELSE coachProfile.teams[t]]]
               /\ UNCHANGED <<roster, periods, isActive, teamId, now>>
          ELSE /\ Len(coachProfile.teams) < MaxTeams
               /\ now <= MaxClock
               /\ coachProfile' =
                     [coachProfile EXCEPT !.teams = Append(coachProfile.teams, team),
                                          !.activeTeamId = team.id]
               /\ teamId' = team.id
               /\ roster' = team.players
               /\ periods' = <<>>
               /\ isActive' = FALSE
               /\ now' = now + 1
    /\ showTeamEdit' = FALSE
    /\ editingTeam' = <<>>
    /\ ret' = "none"
    /\ UNCHANGED <<settings, lineupSuggestion, currentPeriod, showRosterFromTeams>>

\* handleTeamDelete: the team that replaces the last team deleted
defaultTeam == [id |-> TeamIdAt(now), players |-> <<>>]

\* TeamEditModal: the delete button of a team being edited, confirmed;
\* App.handleTeamDelete
HandleTeamDelete ==
    /\ showTeamEdit
    /\ editingTeam # <<>>
    /\ LET deletedId == editingTeam[1].id
           remainingTeams == SelectSeq(coachProfile.teams, LAMBDA t : t.id # deletedId)
       IN IF Len(remainingTeams) = 0
          THEN /\ now <= MaxClock
               /\ coachProfile' = [coachProfile EXCEPT !.teams = <<defaultTeam>>,
                                                       !.activeTeamId = defaultTeam.id]
               /\ teamId' = defaultTeam.id
               /\ roster' = <<>>
               /\ periods' = <<>>
               /\ isActive' = FALSE
               /\ now' = now + 1
          ELSE /\ coachProfile' = [coachProfile EXCEPT !.teams = remainingTeams,
                                                       !.activeTeamId = remainingTeams[1].id]
               /\ IF deletedId = coachProfile.activeTeamId
                  THEN /\ teamId' = remainingTeams[1].id
                       /\ roster' = remainingTeams[1].players
                       /\ periods' = <<>>
                       /\ isActive' = FALSE
                  ELSE UNCHANGED <<teamId, roster, periods, isActive>>
               /\ UNCHANGED now
    /\ showTeamEdit' = FALSE
    /\ editingTeam' = <<>>
    /\ ret' = "none"
    /\ UNCHANGED <<settings, lineupSuggestion, currentPeriod, showRosterFromTeams>>

NextApp ==
    \/ OnGoToRoster
    \/ \E t \in 1..Len(coachProfile.teams) : HandleTeamSelect(t)
    \/ \E k \in 1..Len(roster) : HandlePlayerToggle(k)
    \/ HandleStartGame
    \/ HandleGenerateLineup
    \/ HandleStartPeriod
    \/ HandleCompletePeriod
    \/ \E playerOutId \in SwapOutInputs, playerInId \in 1..RosterSize :
          HandleSwapPlayer(playerOutId, playerInId)
    \/ HandleUpgradeToPremium
    \/ \E t \in 1..Len(coachProfile.teams) : HandleTeamEdit(t)
    \/ HandleCreateTeam
    \/ OnCancel
    \/ HandleTeamSave
    \/ HandleTeamDelete

\* the App with its game and team events
SpecApp == InitApp /\ [][NextApp]_vars

NextRoster ==
    \/ OnGoToRoster
    \/ \E t \in 1..Len(coachProfile.teams) : HandleTeamSelect(t)
    \/ \E k \in 1..Len(roster) : HandlePlayerToggle(k)
    \/ \E k \in 1..Len(roster), form \in PlayerFormInputs : HandlePlayerUpdate(k, form)
    \/ \E form \in AddPlayerInputs : HandlePlayerAdd(form)
    \/ \E k \in 1..Len(roster) : HandlePlayerDelete(k)
    \/ HandleStartGame
    \/ HandleGenerateLineup
    \/ HandleStartPeriod
    \/ HandleCompletePeriod

\* the App with its game events and the roster edits
SpecRoster == InitApp /\ [][NextRoster]_vars

\* C9: every period of game.periods has a lineup of exactly
\* settings.playersOnCourt players.
C9_EveryLineupHasCourtSize ==
    \A i \in 1..Len(periods) : Len(periods[i].lineup) = settings.playersOnCourt

\* C13: a completed period of game.periods is still in game.periods, and still
\* completed, after every event.
C13_CompletedPeriodStays ==
    [][\A i \in 1..Len(periods) :
          periods[i].isCompleted
          => /\ i <= Len(periods')
             /\ periods'[i].id = periods[i].id
             /\ periods'[i].isCompleted]_vars

\* C29: game.isActive becomes true only in a state where at least
\* settings.playersOnCourt (5) roster players are marked present.
C29_StartNeedsFullLineup ==
    [][(~isActive /\ isActive')
       => /\ Len(PresentPlayers(roster)) >= settings.playersOnCourt
          /\ Len(PresentPlayers(roster')) >= settings'.playersOnCourt
          /\ settings'.playersOnCourt = MinPlayersToStart]_vars

\* the game was started with exactly five of the six players present
C29_Witness ==
    /\ isActive
    /\ periods = <<>>
    /\ lineupSuggestion # <<>>
    /\ Len(lineupSuggestion[1].players) = settings.playersOnCourt
    /\ Len(PresentPlayers(roster)) = MinPlayersToStart
    /\ Len(roster) > MinPlayersToStart

\* StatsScreen.renderGameSummary: timeBalance, Math.max(0, 1 - sqrt(timeVariance)
\* / averagePlayingTime), kept as 1 - sqrt(q) for the quotient q of
\* timeVariance by the square of averagePlayingTime: with n present players
\* of times m, q is (n * sum of m * m - square of the sum) / square of the
\* sum, NaN when the sum is 0 (and when n is 0). The times enter divided by
\* their greatest common divisor, which leaves q as it is.
timeBalance(r) ==
    LET report == PresentPlayers(r)
        n == Len(report)
        RECURSIVE GcdOfTimes(_)
        GcdOfTimes(k) == IF k = 0 THEN 0
                         ELSE GCD(report[k].totalPlayingTime, GcdOfTimes(k - 1))
        g == Max(1, GcdOfTimes(n))
        minutes == [k \in 1..n |-> report[k].totalPlayingTime \div g]
        sum == SumSeq(minutes)
        squares == SumSeq([k \in 1..n |-> minutes[k] * minutes[k]])
        spread == n * squares - sum * sum
    IN [oneMinusSqrtOf |->
           IF sum = 0 THEN Quotient(0, 0)
           ELSE Quotient(IF spread > sum * sum THEN sum * sum ELSE spread, sum * sum)]

\* C32: when every present player has totalPlayingTime 0, the playing time
\* balance of the statistics screen is a defined number of [0, 1].
C32_BalanceDefinedAtZeroTimes ==
    (isActive /\ \A k \in 1..Len(roster) :
                    roster[k].isPresent => roster[k].totalPlayingTime = 0)
    => InUnitInterval(timeBalance(roster).oneMinusSqrtOf)

\* C33: in every state the App's events reach, every period of game.periods
\* other than the last is completed: at most one period is in progress.
C33_OnlyLastPeriodOpen ==
    \A i \in 1..(Len(periods) - 1) : periods[i].isCompleted

\* with a second team in the profile, the second period of a game is in
\* progress after the first was completed
C33_Witness ==
    /\ Len(coachProfile.teams) > 1
    /\ isActive
    /\ Len(periods) = 2
    /\ periods[1].isCompleted
    /\ ~periods[2].isCompleted
    /\ currentPeriod = periods[2].id

\* C35: while game.periods holds no completed period, every roster player has
\* totalPlayingTime 0.
C35_NoCompletedPeriodNoTime ==
    CompletedCount(periods) = 0
    => \A k \in 1..Len(roster) : roster[k].totalPlayingTime = 0

\* the ids of the teams of a coach profile
TeamIds(profile) == {profile.teams[t].id : t \in 1..Len(profile.teams)}

\* a team event: handleTeamSelect, handleTeamSave or handleTeamDelete
TeamEvent ==
    \/ \E t \in 1..Len(coachProfile.teams) : HandleTeamSelect(t)
    \/ HandleTeamSave
    \/ HandleTeamDelete

\* C36: after every team event coachProfile.activeTeamId is the id of a team
\* of coachProfile.teams and game.teamId is coachProfile.activeTeamId.
C36_TeamEventsKeepActiveTeam ==
    [][TeamEvent => /\ coachProfile'.activeTeamId \in TeamIds(coachProfile')
                    /\ teamId' = coachProfile'.activeTeamId]_vars

====
